---- MODULE Spec2Model ----
(***************************************************************************)
(* A model of confull: the Config manager (src/confull/config.py), its     *)
(* ConfigNode tree (src/confull/node.py) and the format handlers           *)
(* (src/confull/handlers.py).                                              *)
(*                                                                         *)
(* Python values are records of one shape, [kind, ty, s, m, at]:           *)
(*   kind = "s"  a scalar of Python type ty ("int", "str", "bool",         *)
(*               "null") whose str() is s;                                  *)
(*   kind = "d"  a plain dict with items m;                                 *)
(*   kind = "n"  a ConfigNode whose _data is m and whose instance           *)
(*               attributes set through '_'-prefixed names are at.          *)
(* Every handler is an operator from a manager state                       *)
(* [data, dirty, timer, file, nwrites] to its successor; an action         *)
(* installs the result of one whole public call.                           *)
(***************************************************************************)
EXTENDS Naturals, Sequences, FiniteSets, TLC

VARIABLES
    data,         \* Config._data: the root ConfigNode
    dirty,        \* Config._dirty
    save_timer,   \* Config._save_timer: [alive, due]
    file,         \* the content of the target path Config._file
    nwrites,      \* number of completed os.replace calls on the target
    auto_save,    \* Config._auto_save
    debounce_ms,  \* Config._debounce_ms
    temp_path,    \* whether a file stands at "<file>.tmp"
    pwd,          \* Config._pwd
    way,          \* Config._way
    urandom,      \* the salt the next os.urandom(SALT_SIZE) returns
    now,          \* the clock the threading.Timer runs against
    last,         \* the last public call: its arguments, outcome and pre-state
    fresh,        \* the outcome of the last Config(...) built on the same path
    burst,        \* the running burst: [w0, lastmut], nwrites when its timer
                  \* was started and the time of the last change of the tree
    nops,         \* number of public calls made so far
    run           \* the calls in progress: where each thread or process
                  \* stands inside a call that other threads interleave with

vars == <<data, dirty, save_timer, file, nwrites, auto_save, debounce_ms,
          temp_path, pwd, way, urandom, now, last, fresh, burst, nops, run>>

(***************************************************************************)
(* Bounds of the model.                                                    *)
(***************************************************************************)
MaxOps == 2
MaxDepth == 3

(***************************************************************************)
(* Maps (Python dict contents).                                            *)
(***************************************************************************)
EmptyMap == [k \in {} |-> 0]
Put(m, k, v) == [x \in (DOMAIN m) \cup {k} |-> IF x = k THEN v ELSE m[x]]
Del(m, k) == [x \in (DOMAIN m) \ {k} |-> m[x]]

(***************************************************************************)
(* Values.                                                                 *)
(***************************************************************************)
Scalar(ty, s) == [kind |-> "s", ty |-> ty, s |-> s, m |-> EmptyMap, at |-> EmptyMap]
Dict(m) == [kind |-> "d", ty |-> "dict", s |-> "", m |-> m, at |-> EmptyMap]
None == Scalar("null", "None")
Int1 == Scalar("int", "1")
Int2 == Scalar("int", "2")
Str1 == Scalar("str", "1")
StrV == Scalar("str", "v")
True == Scalar("bool", "True")

\* ConfigNode(data, manager=..., parent=...): `self._data = data or {}`
ConfigNode(d) == [kind |-> "n", ty |-> "node", s |-> "", m |-> d.m, at |-> EmptyMap]

\* isinstance(v, (dict, ConfigNode))
IsMapping(v) == v.kind \in {"d", "n"}
\* isinstance(v, dict)
IsDict(v) == v.kind = "d"
IsNone(v) == v.kind = "s" /\ v.ty = "null"

(***************************************************************************)
(* Names with a special meaning to the two classes.                        *)
(***************************************************************************)
\* ConfigNode._RESERVED
NODE_RESERVED == {"has_top_level_key", "_trigger_save", "_data", "_manager",
                  "_parent", "_key_in_parent", "_lock"}
\* Config._CONF_RESERVED
CONF_RESERVED == {"to_dict", "to_json", "is_auto_save", "set_auto_save", "path",
                  "path_abs", "save", "to_file", "reload", "write", "read",
                  "clean_del"}
\* The keys the model draws from: two ordinary ones, one that begins with
\* '_', one that names a member of ConfigNode, one reserved by Config.
Keys == {"a", "b", "_x", "data", "save"}
PlainKeys == {"a", "b"}
\* key.startswith("_"), over Keys and NODE_RESERVED
StartsWithUnderscore(k) ==
    k \in {"_x", "_trigger_save", "_data", "_manager", "_parent",
           "_key_in_parent", "_lock"}
\* Names that ordinary attribute lookup finds on the class ConfigNode (its
\* properties and methods and those MutableMapping gives it), so that
\* getattr(node, k) never reaches ConfigNode.__getattr__.
NodeClassAttr(k) ==
    k \in {"data", "dict", "has_top_level_key", "get", "items", "keys",
           "values", "pop", "popitem", "clear", "update", "setdefault"}

(***************************************************************************)
(* ConfigNode._expand / .dict, and Config.read.                            *)
(***************************************************************************)
RECURSIVE Expand(_)
Expand(v) ==
    Dict([k \in DOMAIN v.m |->
            IF v.m[k].kind = "n" THEN Expand(v.m[k]) ELSE v.m[k]])

\* Mapping.__eq__: a ConfigNode equals a dict with equal items.
RECURSIVE Plain(_)
Plain(v) ==
    IF IsMapping(v) THEN Dict([k \in DOMAIN v.m |-> Plain(v.m[k])]) ELSE v

RECURSIVE ReadFrom(_, _, _)
ReadFrom(node, keys, default) ==
    IF keys = <<>> THEN node
    ELSE IF ~IsMapping(node) THEN default
    ELSE LET k == Head(keys) IN
         IF k \notin DOMAIN node.m \/ IsNone(node.m[k]) THEN default
         ELSE ReadFrom(node.m[k], Tail(keys), default)

\* Config.read(key, default) on the tree rooted at root
Read(root, keys, default) == ReadFrom(root, keys, default)

(***************************************************************************)
(* Files and the Fernet envelope.  A file is                               *)
(*   kind "none"   no such path,      kind "empty"  zero bytes,            *)
(*   kind "plain"  a document doc written by the handler of format fmt,    *)
(*   kind "enc"    ENCRYPT_HEADER + salt + token, the token made under     *)
(*                 key over the orjson text of doc; intact is false once   *)
(*                 a byte of the token was changed.                         *)
(* PBKDF2 and Fernet are taken as ideal: distinct (password, salt) pairs   *)
(* give distinct keys, and a token decrypts only under the key it was     *)
(* made with and only while intact.                                        *)
(***************************************************************************)
NoPwd == ""
Salts == {0, 1}
_cached_kdf(password, salt) == <<password, salt>>
NoFile == [kind |-> "none", fmt |-> "", doc |-> Dict(EmptyMap), salt |-> 0,
           key |-> <<NoPwd, 0>>, intact |-> TRUE]
EmptyFile == [NoFile EXCEPT !.kind = "empty"]
PlainFile(fmt, doc) == [NoFile EXCEPT !.kind = "plain", !.fmt = fmt, !.doc = doc]

\* Config._encrypt_data for a configured password
_encrypt_data(snap, password, salt) ==
    [kind |-> "enc", fmt |-> "", doc |-> snap, salt |-> salt,
     key |-> _cached_kdf(password, salt), intact |-> TRUE]

\* A variant of the check below that accepts a token under any key
DecryptFailsAnyKey(f, password) == password = NoPwd \/ ~f.intact

\* Config._decrypt_data on a file that starts with the header: does it return?
DecryptFails(f, password) ==
    \/ password = NoPwd
    \/ ~f.intact
    \/ _cached_kdf(password, f.salt) # f.key
_decrypt_data(f, password) ==
    IF DecryptFails(f, password) THEN [ok |-> FALSE, doc |-> Dict(EmptyMap)]
    ELSE [ok |-> TRUE, doc |-> f.doc]

(***************************************************************************)
(* The handlers (src/confull/handlers.py).                                 *)
(***************************************************************************)
Formats == {"json", "toml", "yaml", "ini", "xml"}
DefaultSection == "默认"

\* Python's str(value)
Str(v) == IF v.kind = "s" THEN Scalar("str", v.s) ELSE Scalar("str", "{...}")

\* toml.dumps leaves out the keys whose value is None
RECURSIVE TomlDump(_)
TomlDump(v) ==
    IF ~IsMapping(v) THEN v
    ELSE Dict([k \in {j \in DOMAIN v.m : ~IsNone(v.m[j])} |-> TomlDump(v.m[k])])

\* INIConfigHandler.save
IniSave(snap) ==
    LET secs == {k \in DOMAIN snap.m : IsDict(snap.m[k])}
        dflt == (DOMAIN snap.m) \ secs
        base == [k \in secs |->
                   Dict([j \in DOMAIN snap.m[k].m |-> Str(snap.m[k].m[j])])]
    IN  Dict(IF dflt = {} THEN base
             ELSE Put(base, DefaultSection, Dict([k \in dflt |-> Str(snap.m[k])])))

\* XMLConfigHandler._dict_to_element
RECURSIVE _dict_to_element(_)
_dict_to_element(v) ==
    Dict([k \in DOMAIN v.m |->
            IF IsDict(v.m[k]) THEN _dict_to_element(v.m[k]) ELSE Str(v.m[k])])

\* XMLConfigHandler._element_to_dict: a child without children gives its
\* text, which is None for an element written from an empty dict
RECURSIVE _element_to_dict(_)
_element_to_dict(el) ==
    Dict([k \in DOMAIN el.m |->
            IF IsDict(el.m[k])
            THEN (IF el.m[k].m = EmptyMap THEN None ELSE _element_to_dict(el.m[k]))
            ELSE el.m[k]])

\* handler.save(config_data, f): the document the handler writes
HandlerSave(fmt, snap) ==
    CASE fmt = "toml" -> TomlDump(snap)
      [] fmt = "ini"  -> IniSave(snap)
      [] fmt = "xml"  -> _dict_to_element(snap)
      [] OTHER        -> snap
\* handler.load(f): the dict the handler reads back
HandlerLoad(fmt, doc) ==
    CASE fmt = "xml" -> _element_to_dict(doc)
      [] OTHER       -> doc
\* toml and ini write no byte for a document without tables or sections
WritesNothing(fmt, doc) == fmt \in {"toml", "ini"} /\ doc.m = EmptyMap

(***************************************************************************)
(* The manager: dirty flag, debounce timer, save and load.                 *)
(* A manager state st is [data, dirty, timer, file, nwrites, tmp, pwd,     *)
(* way]: tmp says whether a file stands at temp_path, pwd and way are the  *)
(* manager's password and format.                                          *)
(***************************************************************************)
NoTimer == [alive |-> FALSE, due |-> 0]

St == [data |-> data, dirty |-> dirty, timer |-> save_timer, file |-> file,
       nwrites |-> nwrites, tmp |-> temp_path, pwd |-> pwd, way |-> way]

\* Config.mark_dirty
mark_dirty(st) == [st EXCEPT !.dirty = TRUE]

\* The bytes Config._write_to_file puts at the target
PlainBytes(fmt, doc) ==
    IF WritesNothing(fmt, doc) THEN EmptyFile ELSE PlainFile(fmt, doc)
FileBytes(st) ==
    IF st.pwd # NoPwd THEN _encrypt_data(Expand(st.data), st.pwd, urandom)
    ELSE PlainBytes(st.way, HandlerSave(st.way, Expand(st.data)))

\* Config._write_to_file(self._file, self._way): temporary file, os.replace
_write_to_file(st) ==
    [st EXCEPT !.file = FileBytes(st), !.nwrites = st.nwrites + 1,
               !.tmp = FALSE]

\* A variant of the check below that never refuses
PreCheckSkipped(st) == FALSE

\* The check save() makes before it writes: an existing file that starts
\* with ENCRYPT_HEADER must decrypt under the manager's password
PreCheckFails(st) == st.file.kind = "enc" /\ DecryptFails(st.file, st.pwd)

\* A variant of the step below that leaves the timer running
TimerLeftRunning(st) == st

\* Config.save: cancel a live timer; nothing to do when clean; refuse (and
\* log) when the check fails; else write and clear the flag.
CancelTimer(st) == IF st.timer.alive THEN [st EXCEPT !.timer = NoTimer] ELSE st
SaveLocked(st) ==
    IF ~st.dirty THEN st
    ELSE IF PreCheckFails(st) THEN st
    ELSE [_write_to_file(st) EXCEPT !.dirty = FALSE]
save(st) == SaveLocked(CancelTimer(st))

\* A variant of the method below that keeps a timer that is pending
KeepPendingTimer(st) ==
    IF ~auto_save THEN st
    ELSE IF debounce_ms = 0 THEN save(st)
    ELSE IF st.timer.alive THEN st
    ELSE [st EXCEPT !.timer = [alive |-> TRUE, due |-> now + debounce_ms]]

\* Config._auto_save_if_needed
_auto_save_if_needed(st) ==
    IF ~auto_save THEN st
    ELSE IF debounce_ms = 0 THEN save(st)
    ELSE [st EXCEPT !.timer = [alive |-> TRUE, due |-> now + debounce_ms]]

\* Config.notify_dirty
notify_dirty(st) ==
    IF auto_save THEN _auto_save_if_needed(mark_dirty(st)) ELSE mark_dirty(st)

\* ConfigNode._trigger_save on a node depth levels below the root: the node
\* notifies the manager, then so does each of its parents.  "if
\* self._manager" asks Config.__bool__, which is false while the root
\* mapping is empty; "if self._parent" asks the parent's __len__, and a
\* parent holds at least the child that notifies.
RECURSIVE Bubble(_, _)
Bubble(st, n) == IF n = 0 THEN st ELSE Bubble(notify_dirty(st), n - 1)
_trigger_save(st, depth) ==
    IF st.data.m = EmptyMap THEN st ELSE Bubble(st, depth + 1)

\* Config._flush_save, the timer's callback
_flush_save(st) == [save(st) EXCEPT !.timer = NoTimer]

\* Config._load under password p and format fmt: the tree, or the error
Loaded(err, d) == [err |-> err, data |-> ConfigNode(d)]
_load(f, p, fmt) ==
    CASE f.kind = "none"  -> Loaded("none", Dict(EmptyMap))
      [] f.kind = "empty" -> Loaded("none", Dict(EmptyMap))
      [] f.kind = "enc"   ->
            IF p = NoPwd THEN Loaded("MissingPassword", Dict(EmptyMap))
            ELSE IF DecryptFails(f, p) THEN Loaded("IntegrityFailure", Dict(EmptyMap))
            ELSE Loaded("none", _decrypt_data(f, p).doc)
      [] OTHER            -> Loaded("none", HandlerLoad(fmt, f.doc))

\* The outcome of a call: the manager afterwards and the error raised
Ok(st) == [st |-> st, err |-> "none"]
Err(st, e) == [st |-> st, err |-> e]

\* A variant of the method below that clears the flag before it loads
ReloadClearsFlag(st, r) ==
    IF r.err # "none" THEN Err([st EXCEPT !.dirty = FALSE], r.err)
    ELSE Ok([st EXCEPT !.data = r.data, !.dirty = FALSE])

\* Config.reload: _load, then the flag is cleared; an error leaves both
ReloadWith(st, r) ==
    IF r.err # "none" THEN Err(st, r.err)
    ELSE Ok([st EXCEPT !.data = r.data, !.dirty = FALSE])
reload(st) == ReloadWith(st, _load(st.file, st.pwd, st.way))

(***************************************************************************)
(* The tree: ConfigNode.__setitem__ / __getitem__, Config.write,           *)
(* Config.del_key.  A node is named by the keys that lead to it from the  *)
(* root; the nodes on the way are ConfigNodes linked by _parent.           *)
(***************************************************************************)
RECURSIVE GetAt(_, _)
GetAt(v, path) == IF path = <<>> THEN v ELSE GetAt(v.m[Head(path)], Tail(path))

RECURSIVE SetAt(_, _, _)
SetAt(v, path, new) ==
    IF path = <<>> THEN new
    ELSE [v EXCEPT !.m = Put(v.m, Head(path),
                             SetAt(v.m[Head(path)], Tail(path), new))]

Front(keys) == SubSeq(keys, 1, Len(keys) - 1)
Last(keys) == keys[Len(keys)]

\* ConfigNode.__setitem__(key, value) on the node at cur
Stored(value) == IF IsDict(value) THEN ConfigNode(value) ELSE value
PutAt(st, cur, node, key, value) ==
    [st EXCEPT !.data = SetAt(st.data, cur, [node EXCEPT !.m = Put(node.m, key, value)])]
NodeSetItem(st, cur, key, value) ==
    IF key \in NODE_RESERVED THEN Err(st, "AttributeError")
    ELSE Ok(_trigger_save(PutAt(st, cur, GetAt(st.data, cur), key, Stored(value)),
                          Len(cur)))

\* ConfigNode.__delitem__(key) on the node at cur
DelAt(st, cur, node, key) ==
    [st EXCEPT !.data = SetAt(st.data, cur, [node EXCEPT !.m = Del(node.m, key)])]
NodeDelItem(st, cur, key) ==
    IF key \notin DOMAIN GetAt(st.data, cur).m THEN Err(st, "NotFound")
    ELSE Ok(_trigger_save(DelAt(st, cur, GetAt(st.data, cur), key), Len(cur)))

\* ConfigNode.__getitem__(key), key without a dot and present, on the node
\* at cur: a dict found there is replaced by a ConfigNode over it
NodeGetItem(st, cur, key) ==
    IF IsDict(GetAt(st.data, Append(cur, key)))
    THEN [st EXCEPT !.data = SetAt(st.data, Append(cur, key),
                                   ConfigNode(GetAt(st.data, Append(cur, key))))]
    ELSE st

\* What getattr(node, k) finds before ConfigNode.__getattr__ is asked: a
\* member of the class, or an instance attribute
ShadowedAttr(node, k) ==
    \/ NodeClassAttr(k)
    \/ k \in NODE_RESERVED
    \/ StartsWithUnderscore(k) /\ k \in DOMAIN node.at

\* One round of the loop of Config.write over keys[:-1] up to getattr: the
\* child at k of node, the node at cur, is made a mapping or the write fails
WriteMake(st, cur, k, overwrite_mode, node) ==
    IF \/ k \notin DOMAIN node.m
       \/ IsNone(node.m[k])
       \/ ~IsMapping(node.m[k]) /\ overwrite_mode
    THEN NodeSetItem(st, cur, k, Dict(EmptyMap))
    ELSE IF ~IsMapping(node.m[k]) THEN Err(st, "PathConflict")
    ELSE Ok(st)

\* The loop of Config.write over keys[:-1], from the node at cur
Walked(r, cur) == [st |-> r.st, err |-> r.err, cur |-> cur]
RECURSIVE WriteWalk(_, _, _, _)
RECURSIVE WriteStep(_, _, _, _)
WriteStep(made, cur, rest, overwrite_mode) ==
    IF made.err # "none" THEN Walked(made, cur)
    ELSE IF ShadowedAttr(GetAt(made.st.data, cur), Head(rest))
    THEN Walked(Err(made.st, "AttributeError"), cur)
    ELSE WriteWalk(NodeGetItem(made.st, cur, Head(rest)), Append(cur, Head(rest)),
                   Tail(rest), overwrite_mode)
WriteWalk(st, cur, rest, overwrite_mode) ==
    IF rest = <<>> THEN Walked(Ok(st), cur)
    ELSE WriteStep(WriteMake(st, cur, Head(rest), overwrite_mode, GetAt(st.data, cur)),
                   cur, rest, overwrite_mode)

\* setattr(node, key, value) for the node at cur: ConfigNode.__setattr__
SetInstanceAttr(st, cur, node, key, value) ==
    [st EXCEPT !.data = SetAt(st.data, cur, [node EXCEPT !.at = Put(node.at, key, value)])]
NodeSetAttr(st, cur, key, value) ==
    IF StartsWithUnderscore(key)
    THEN Ok(SetInstanceAttr(st, cur, GetAt(st.data, cur), key, value))
    ELSE NodeSetItem(st, cur, key, value)

\* The end of write, update and __setitem__: _auto_save_if_needed unless
\* the call has raised
AutoSave(r) == IF r.err # "none" THEN r ELSE Ok(_auto_save_if_needed(r.st))

\* Config.write(key, value, overwrite_mode), keys = key.split('.')
TypeConflict(node, k, value) ==
    k \in DOMAIN node.m /\ (IsMapping(node.m[k]) # IsMapping(value))
WriteLast(w, k, value, overwrite_mode) ==
    IF w.err # "none" THEN Err(w.st, w.err)
    ELSE IF TypeConflict(GetAt(w.st.data, w.cur), k, value) /\ ~overwrite_mode
    THEN Err(w.st, "PathConflict")
    ELSE IF k \in CONF_RESERVED THEN Err(w.st, "ReservedKeyword")
    ELSE AutoSave(NodeSetAttr(w.st, w.cur, k, value))
write(st, keys, value, overwrite_mode) ==
    WriteLast(WriteWalk(mark_dirty(st), <<>>, Front(keys), overwrite_mode),
              Last(keys), value, overwrite_mode)

\* The walk and the clean-up of Config.del_key below the dict v: res is
\*   "early"    the loop over keys[:-1] returned (line 344),
\*   "absent"   the final test found nothing to delete,
\*   "deleted"  the key was deleted and every dict below v emptied and removed,
\*   "stopped"  the key was deleted and the clean-up met a non-empty dict.
RECURSIVE DelWalk(_, _)
RECURSIVE DelUp(_, _, _)
DelUp(r, v, k) ==
    CASE r.res = "deleted" /\ IsDict(r.v) /\ r.v.m = EmptyMap ->
             [v |-> [v EXCEPT !.m = Del(v.m, k)], res |-> "deleted"]
      [] r.res \in {"deleted", "stopped"} ->
             [v |-> [v EXCEPT !.m = Put(v.m, k, r.v)], res |-> "stopped"]
      [] OTHER -> [v |-> v, res |-> r.res]
DelWalk(v, keys) ==
    IF Len(keys) = 1
    THEN IF IsDict(v) /\ Head(keys) \in DOMAIN v.m
         THEN [v |-> [v EXCEPT !.m = Del(v.m, Head(keys))], res |-> "deleted"]
         ELSE [v |-> v, res |-> "absent"]
    ELSE IF ~(IsDict(v) /\ Head(keys) \in DOMAIN v.m) THEN [v |-> v, res |-> "early"]
    ELSE DelUp(DelWalk(v.m[Head(keys)], Tail(keys)), v, Head(keys))

\* Config.del_key(key): the walk starts at self._data.data, a dict
DelDone(s0, r) ==
    IF r.res = "early" THEN s0
    ELSE _auto_save_if_needed([s0 EXCEPT !.data = [s0.data EXCEPT !.m = r.v.m]])
del_key(st, keys) == DelDone(mark_dirty(st), DelWalk(Dict(st.data.m), keys))

(***************************************************************************)
(* Config.update, Config._recursive_update, Config.set_data.               *)
(* The dict handed to update is a sequence of items [keys, val], keys the  *)
(* segments of the item's key ('.' in key: more than one segment).         *)
(***************************************************************************)
\* Config._recursive_update(original, new_data) on plain dicts, the keys of
\* new_data without dots: the dict original has become
RECURSIVE _recursive_update(_, _)
_recursive_update(original, new_data) ==
    Dict([k \in (DOMAIN original.m)
                \cup {j \in DOMAIN new_data.m :
                        j \in DOMAIN original.m \/ ~IsNone(new_data.m[j])} |->
            IF k \notin DOMAIN new_data.m THEN original.m[k]
            ELSE IF IsDict(new_data.m[k]) /\ k \in DOMAIN original.m
                    /\ IsDict(original.m[k])
            THEN _recursive_update(original.m[k], new_data.m[k])
            ELSE IF k \in DOMAIN original.m
                    /\ Plain(original.m[k]) = Plain(new_data.m[k])
            THEN original.m[k]
            ELSE new_data.m[k]])

\* current = current.setdefault(k, {}) for each k of rest, then
\* current[last] = value; current is the container c at cur, or, once lost
\* is true, a dict that is not part of the tree (MutableMapping.setdefault
\* on a ConfigNode returns the default it was given, not the node stored).
RECURSIVE UpdateDotted(_, _, _, _, _, _)
RECURSIVE UpdateAt(_, _, _, _, _, _)
RECURSIVE UpdateLost(_, _, _, _, _)
UpdateLost(r, cur, rest, last_key, value) ==
    IF r.err # "none" THEN r
    ELSE UpdateDotted(r.st, cur, TRUE, Tail(rest), last_key, value)
UpdateAt(st, cur, c, rest, last_key, value) ==
    IF ~(cur = <<>> \/ IsDict(c)) /\ c.kind = "s"
    THEN Err(st, IF rest = <<>> THEN "TypeError" ELSE "AttributeError")
    ELSE IF rest = <<>>
    THEN IF cur = <<>> \/ IsDict(c)
         THEN Ok(PutAt(st, cur, c, last_key, value))
         ELSE NodeSetItem(st, cur, last_key, value)
    ELSE IF cur = <<>> \/ IsDict(c)
    THEN UpdateDotted(IF Head(rest) \in DOMAIN c.m THEN st
                      ELSE PutAt(st, cur, c, Head(rest), Dict(EmptyMap)),
                      Append(cur, Head(rest)), FALSE, Tail(rest), last_key, value)
    ELSE IF Head(rest) \in DOMAIN c.m
    THEN UpdateDotted(NodeGetItem(st, cur, Head(rest)), Append(cur, Head(rest)),
                      FALSE, Tail(rest), last_key, value)
    ELSE UpdateLost(NodeSetItem(st, cur, Head(rest), Dict(EmptyMap)), cur, rest,
                    last_key, value)
UpdateDotted(st, cur, lost, rest, last_key, value) ==
    IF lost THEN Ok(st)
    ELSE UpdateAt(st, cur, GetAt(st.data, cur), rest, last_key, value)

\* One item of the loop of Config.update; top is self._data.data
UpdateTop(st, top, key, val) ==
    IF IsDict(val) /\ key \in DOMAIN top /\ IsDict(top[key])
    THEN Ok([st EXCEPT !.data.m = Put(top, key, _recursive_update(top[key], val))])
    ELSE IF key \in CONF_RESERVED THEN Err(st, "ReservedKeyword")
    ELSE IF (key \notin DOMAIN top /\ IsNone(val))
            \/ (key \in DOMAIN top /\ Plain(top[key]) = Plain(val))
    THEN Ok(st)
    ELSE Ok(mark_dirty([st EXCEPT !.data.m = Put(top, key, val)]))
UpdateItem(st, item) ==
    IF Len(item.keys) > 1
    THEN UpdateDotted(st, <<>>, FALSE, Front(item.keys), Last(item.keys), item.val)
    ELSE UpdateTop(st, st.data.m, item.keys[1], item.val)

RECURSIVE UpdateLoop(_, _)
RECURSIVE UpdateNext(_, _)
UpdateNext(r, items) == IF r.err # "none" THEN r ELSE UpdateLoop(r.st, Tail(items))
UpdateLoop(st, items) ==
    IF items = <<>> THEN Ok(st) ELSE UpdateNext(UpdateItem(st, Head(items)), items)

\* Config.update(data)
update(st, items) == AutoSave(UpdateLoop(mark_dirty(st), items))

\* Config.set_data(data)
set_data(st, d) ==
    IF (DOMAIN d.m) \cap CONF_RESERVED # {} THEN Err(mark_dirty(st), "ReservedKeyword")
    ELSE Ok(_auto_save_if_needed([mark_dirty(st) EXCEPT !.data = ConfigNode(d)]))

(***************************************************************************)
(* Attribute and subscript access: Config.__getattr__, __setattr__,        *)
(* __delattr__, __setitem__ and ConfigNode.__getattr__, __setattr__,       *)
(* __delattr__.                                                            *)
(***************************************************************************)
\* Names that ordinary attribute lookup finds on the class Config
ConfigClassAttr(k) ==
    k \in CONF_RESERVED \cup {"update", "set_data", "del_key", "load",
                              "mark_dirty", "notify_dirty", "enable_watch",
                              "disable_watch"}

\* The outcome of an attribute read: node says whether the result is the
\* ConfigNode now stored at cur.k
Got(st, cur, k) ==
    [st |-> st, err |-> "none", node |-> GetAt(st.data, Append(cur, k)).kind = "n"]
NotNode(st) == [st |-> st, err |-> "none", node |-> FALSE]

\* getattr(node, k) for the node at cur
NodeGetAttr(st, cur, k) ==
    IF ShadowedAttr(GetAt(st.data, cur), k) THEN NotNode(st)
    ELSE Got(NodeGetItem(IF k \in DOMAIN GetAt(st.data, cur).m THEN st
                         ELSE NodeSetItem(st, cur, k, Dict(EmptyMap)).st,
                         cur, k),
             cur, k)

\* Config.__getattr__(item), reached when item is no member of Config
ConfigGetAttr(st, k) ==
    IF ConfigClassAttr(k) THEN NotNode(st)
    ELSE IF k \in DOMAIN st.data.m /\ k \notin NODE_RESERVED   \* has_top_level_key
    THEN Got(NodeGetItem(st, <<>>, k), <<>>, k)
    ELSE NodeGetAttr(st, <<>>, k)

\* cfg.k1.k2...kn evaluated from the left: the attribute chain
RECURSIVE AttrChain(_, _, _)
RECURSIVE AttrStep(_, _, _)
AttrStep(g, cur, rest) ==
    IF ~g.node
    THEN [st |-> g.st, err |-> IF Tail(rest) = <<>> THEN "none" ELSE "AttributeError",
          node |-> FALSE, cur |-> cur]
    ELSE AttrChain(g.st, Append(cur, Head(rest)), Tail(rest))
AttrChain(st, cur, rest) ==
    IF rest = <<>> THEN [st |-> st, err |-> "none", node |-> TRUE, cur |-> cur]
    ELSE IF cur = <<>> THEN AttrStep(ConfigGetAttr(st, Head(rest)), cur, rest)
    ELSE AttrStep(NodeGetAttr(st, cur, Head(rest)), cur, rest)

\* cfg.k1...kn = value: Config.__setattr__ for n = 1, else the chain and
\* ConfigNode.__setattr__ on what it gives
AssignOn(c, key, value) ==
    IF ~c.node THEN Err(c.st, "AttributeError")
    ELSE NodeSetAttr(c.st, c.cur, key, value)
attr_assign(st, keys, value) ==
    IF Len(keys) = 1 /\ StartsWithUnderscore(keys[1]) THEN Ok(st)
    ELSE IF Len(keys) = 1 /\ keys[1] \in CONF_RESERVED THEN Err(st, "ReservedKeyword")
    ELSE AssignOn(AttrChain(st, <<>>, Front(keys)), Last(keys), value)

\* del cfg.k1...kn: Config.__delattr__ for n = 1 (read, then del_key), else
\* the chain and ConfigNode.__delattr__
DelInstanceAttr(st, cur, node, key) ==
    IF key \notin DOMAIN node.at THEN Err(st, "AttributeError")
    ELSE Ok([st EXCEPT !.data = SetAt(st.data, cur,
                                      [node EXCEPT !.at = Del(node.at, key)])])
DeleteOn(c, key) ==
    IF ~c.node THEN Err(c.st, "AttributeError")
    ELSE IF StartsWithUnderscore(key)
    THEN DelInstanceAttr(c.st, c.cur, GetAt(c.st.data, c.cur), key)
    ELSE NodeDelItem(c.st, c.cur, key)
attr_delete(st, keys) ==
    IF Len(keys) = 1
    THEN IF StartsWithUnderscore(keys[1]) THEN Err(st, "AttributeError")
         ELSE Ok(del_key(st, keys))
    ELSE DeleteOn(AttrChain(st, <<>>, Front(keys)), Last(keys))

\* The loop of Config.__setitem__ over keys[:-1]
RECURSIVE SubscriptWalk(_, _, _)
RECURSIVE SubscriptStep(_, _, _)
RECURSIVE SubscriptInto(_, _, _)
SubscriptInto(s2, cur, rest) ==
    IF GetAt(s2.data, Append(cur, Head(rest))).kind # "n"
    THEN Walked(Err(s2, IF Tail(rest) = <<>> THEN "TypeError" ELSE "AttributeError"),
                cur)
    ELSE SubscriptWalk(s2, Append(cur, Head(rest)), Tail(rest))
SubscriptStep(made, cur, rest) ==
    IF made.err # "none" THEN Walked(made, cur)
    ELSE SubscriptInto(NodeGetItem(made.st, cur, Head(rest)), cur, rest)
SubscriptWalk(st, cur, rest) ==
    IF rest = <<>> THEN Walked(Ok(st), cur)
    ELSE SubscriptStep(IF Head(rest) \in DOMAIN GetAt(st.data, cur).m THEN Ok(st)
                       ELSE NodeSetItem(st, cur, Head(rest), Dict(EmptyMap)),
                       cur, rest)

\* Config.__setitem__(key, value): cfg["a.b"] = value
MarkDirty(r) == IF r.err # "none" THEN r ELSE Ok(mark_dirty(r.st))
SetLast(w, key, value) ==
    IF w.err # "none" THEN Err(w.st, w.err)
    ELSE AutoSave(MarkDirty(NodeSetItem(w.st, w.cur, key, value)))
__setitem__(st, keys, value) ==
    SetLast(SubscriptWalk(st, <<>>, Front(keys)), Last(keys), value)

\* keys is a path of the tree or flattened snapshot snap
RECURSIVE HasPath(_, _)
HasPath(snap, keys) ==
    IF keys = <<>> THEN TRUE
    ELSE /\ IsMapping(snap)
         /\ Head(keys) \in DOMAIN snap.m
         /\ HasPath(snap.m[Head(keys)], Tail(keys))

Prefix(keys, i) == SubSeq(keys, 1, i)

(***************************************************************************)
(* The read idioms: what each returns, and the manager it leaves.          *)
(***************************************************************************)
Gave(st, err, val) == [st |-> st, err |-> err, val |-> val]

\* What stands for a method or property of the class in a result
Member(k) == Scalar("member", k)

\* Config.__getitem__(item), keys = item.split('.'): below the manager, a
\* ConfigNode is indexed by node._data[k], a dict by node.get(k) where None
\* counts as missing, and anything else ends the walk
RECURSIVE SubscriptDown(_, _, _)
SubscriptDown(st, v, rest) ==
    IF rest = <<>> THEN Gave(st, "none", v)
    ELSE IF ~IsMapping(v) THEN Gave(st, "NotFound", None)
    ELSE IF Head(rest) \notin DOMAIN v.m THEN Gave(st, "NotFound", None)
    ELSE IF IsDict(v) /\ IsNone(v.m[Head(rest)]) THEN Gave(st, "NotFound", None)
    ELSE SubscriptDown(st, v.m[Head(rest)], Tail(rest))
SubscriptTop(st, keys) == SubscriptDown(st, GetAt(st.data, <<Head(keys)>>), Tail(keys))
__getitem__(st, keys) ==
    IF Head(keys) \notin DOMAIN st.data.m THEN Gave(st, "NotFound", None)
    ELSE SubscriptTop(NodeGetItem(st, <<>>, Head(keys)), keys)

\* A variant of the method below that walks the path as a chained attribute
\* read does
ReadByAttrChain(st, keys, default) ==
    Gave(AttrChain(st, <<>>, keys).st, "none", Read(st.data, keys, default))

\* Config.read(key, default) and cfg(key, default): the tree is not touched
read(st, keys, default) == Gave(st, "none", Read(st.data, keys, default))

\* key in cfg: read(key, sentinel) is not sentinel
__contains__(st, keys) ==
    Gave(st, "none", IF Read(st.data, keys, Member("sentinel")) # Member("sentinel")
                     THEN True ELSE Scalar("bool", "False"))

\* cfg.k1...kn evaluated: what the last getattr of the chain returns.  A
\* name that ordinary lookup finds gives an instance attribute of the node
\* or a member of the class, any other gives what the tree holds at the key
FoundByLookup(st, parent, k, top) ==
    IF top /\ ConfigClassAttr(k) THEN TRUE
    ELSE IF top /\ k \in DOMAIN parent.m /\ k \notin NODE_RESERVED THEN FALSE
    ELSE ShadowedAttr(parent, k)
LookedUp(parent, k) ==
    IF StartsWithUnderscore(k) /\ k \in DOMAIN parent.at THEN parent.at[k]
    ELSE Member(k)
AttrValue(c, keys) ==
    IF c.err # "none" THEN Gave(c.st, c.err, None)
    ELSE IF c.node THEN Gave(c.st, "none", GetAt(c.st.data, keys))
    ELSE IF FoundByLookup(c.st, GetAt(c.st.data, Front(keys)), Last(keys),
                          Len(keys) = 1)
    THEN Gave(c.st, "none", LookedUp(GetAt(c.st.data, Front(keys)), Last(keys)))
    ELSE Gave(c.st, "none", GetAt(c.st.data, keys))
attr_read(st, keys) == AttrValue(AttrChain(st, <<>>, keys), keys)

(***************************************************************************)
(* Config.__init__.                                                        *)
(***************************************************************************)
\* Config(data, file, way=fmt, replace, auto_save, pwd=p, ...) over a path
\* that holds f0, beside which a file stands at temp_path iff t0; given is
\* false for data=None.
NewManager(f0, t0, dirty0, d, p, fmt) ==
    [data |-> ConfigNode(d), dirty |-> dirty0, timer |-> NoTimer, file |-> f0,
     nwrites |-> 0, tmp |-> t0, pwd |-> p, way |-> fmt]
InitLoad(s0, r) ==
    IF r.err # "none" THEN Err(s0, r.err) ELSE Ok([s0 EXCEPT !.data = r.data])
__init__(f0, t0, given, d, replace, p, fmt) ==
    IF f0.kind # "none" /\ ~replace
    THEN InitLoad(NewManager(f0, t0, ~given, d, p, fmt), _load(f0, p, fmt))
    ELSE Ok(save(NewManager(f0, t0, TRUE, d, p, fmt)))

(***************************************************************************)
(* Inputs.                                                                 *)
(***************************************************************************)
D1(k, v) == Dict(Put(EmptyMap, k, v))
D2(k1, v1, k2, v2) == Dict(Put(Put(EmptyMap, k1, v1), k2, v2))

\* Dot paths of up to MaxDepth segments: the prefixes of a.b.a.b..., each
\* with any key as its last segment, and the two-segment paths that lead
\* through a key that is not an ordinary one.
RECURSIVE Spine(_)
Spine(n) == IF n = 0 THEN <<>>
            ELSE Append(Spine(n - 1), IF n % 2 = 1 THEN "a" ELSE "b")
Paths ==
    {Append(Spine(n), k) : n \in 0..(MaxDepth - 1), k \in Keys}
    \cup {<<k, "b">> : k \in Keys \ PlainKeys}

\* The paths the attribute and subscript idioms are exercised on
ShortPaths == {p \in Paths : Len(p) <= 2}

WriteValues == {Int1, None, D1("b", Int2)}

\* Values assigned through attributes and subscripts
AssignValues == {Int1, D1("b", Int2)}

\* Arguments of update: sequences of items
Item(keys, val) == [keys |-> keys, val |-> val]
Updates == {<<Item(<<"a">>, Int2)>>,
            <<Item(<<"a">>, D1("a", Int2))>>,
            <<Item(<<"a", "b">>, Int2)>>,
            <<Item(<<"b">>, D1("a", None)), Item(<<"a", "b", "a">>, Int2)>>,
            <<Item(<<"b">>, Int1), Item(<<"save">>, Int1)>>}

\* Arguments of set_data
DataSets == {Dict(EmptyMap), D1("b", D1("a", Int2)), D1("save", Int1)}

\* Initial data handed to the constructor
Seeds == {Dict(EmptyMap), D1("a", D1("b", Int1)),
          D2("a", D1("b", D1("a", Int1)), "b", Int2)}

NoCall == [op |-> "init", path |-> <<>>, val |-> None, ow |-> FALSE,
           err |-> "none", t |-> 0,
                           pre |-> [data |-> ConfigNode(Dict(EmptyMap)),
                                    dirty |-> FALSE, timer |-> NoTimer,
                                    file |-> NoFile, nwrites |-> 0,
                                    tmp |-> FALSE, pwd |-> NoPwd,
                                    way |-> "json"]]
Call(op, path, val, ow, err) ==
    [op |-> op, path |-> path, val |-> val, ow |-> ow, err |-> err, t |-> now,
     pre |-> St]

\* The outcome of Config(file=<the same path>, way=way, pwd=p): tried, and
\* whether a manager was returned (made) with which tree, or the error;
\* src is the file it was built over, after the call that came before, and
\* saver and saver_dirty the snapshot and flag of the manager at that time.
NoFresh == [tried |-> FALSE, made |-> FALSE, err |-> "none",
            data |-> ConfigNode(Dict(EmptyMap)), dirty |-> FALSE, p |-> NoPwd,
            src |-> NoFile, after |-> "init", saver |-> Dict(EmptyMap),
            saver_dirty |-> FALSE]
Built(r, p) ==
    [tried |-> TRUE, made |-> r.err = "none", err |-> r.err,
     data |-> IF r.err = "none" THEN r.st.data ELSE ConfigNode(Dict(EmptyMap)),
     dirty |-> r.err = "none" /\ r.st.dirty, p |-> p,
     src |-> file, after |-> last.op, saver |-> Plain(Expand(data)),
     saver_dirty |-> dirty]

NoBurst == [w0 |-> 0, lastmut |-> 0, n |-> 0]

\* No call is in progress
NoRun == [pc |-> "idle"]

\* The variables a call of the manager changes
Install(st) ==
    /\ data' = st.data
    /\ dirty' = st.dirty
    /\ save_timer' = st.timer
    /\ file' = st.file
    /\ nwrites' = st.nwrites
    /\ temp_path' = st.tmp

\* The manager the constructor returned
Start(st) ==
    /\ data = st.data
    /\ dirty = st.dirty
    /\ save_timer = st.timer
    /\ file = st.file
    /\ nwrites = st.nwrites
    /\ temp_path = st.tmp

\* A public call that gave r = [st, err] is over
Commit(r, op, path, val, ow) ==
    /\ Install(r.st)
    /\ last' = Call(op, path, val, ow, r.err)

Config == <<auto_save, debounce_ms, pwd, way>>
Rest == <<Config, urandom, now, fresh, burst, run>>

(***************************************************************************)
(* The public calls, one action each.                                      *)
(***************************************************************************)
Write ==
    /\ nops < MaxOps
    /\ \E p \in Paths, v \in WriteValues, ow \in BOOLEAN :
         Commit(write(St, p, v, ow), "write", p, v, ow)
    /\ nops' = nops + 1
    /\ UNCHANGED Rest

DelKey ==
    /\ nops < MaxOps
    /\ \E p \in Paths :
         Commit(Ok(del_key(St, p)), "del_key", p, None, FALSE)
    /\ nops' = nops + 1
    /\ UNCHANGED Rest

SaveCall ==
    /\ nops < MaxOps
    /\ Commit(Ok(save(St)), "save", <<>>, None, FALSE)
    /\ nops' = nops + 1
    /\ UNCHANGED Rest

Reload ==
    /\ nops < MaxOps
    /\ Commit(reload(St), "reload", <<>>, None, FALSE)
    /\ nops' = nops + 1
    /\ UNCHANGED Rest

Update ==
    /\ nops < MaxOps
    /\ \E u \in Updates :
         Commit(update(St, u), "update", <<>>, None, FALSE)
    /\ nops' = nops + 1
    /\ UNCHANGED Rest

SetData ==
    /\ nops < MaxOps
    /\ \E d \in DataSets :
         Commit(set_data(St, d), "set_data", <<>>, d, FALSE)
    /\ nops' = nops + 1
    /\ UNCHANGED Rest

\* cfg.k1...kn = v
AttrAssign ==
    /\ nops < MaxOps
    /\ \E p \in ShortPaths, v \in AssignValues :
         Commit(attr_assign(St, p, v), "attr_assign", p, v, FALSE)
    /\ nops' = nops + 1
    /\ UNCHANGED Rest

\* del cfg.k1...kn; del cfg._x acts on the attributes of the manager
\* object, which are no part of this model
AttrDelete ==
    /\ nops < MaxOps
    /\ \E p \in {q \in ShortPaths : ~(Len(q) = 1 /\ StartsWithUnderscore(q[1]))} :
         Commit(attr_delete(St, p), "attr_delete", p, None, FALSE)
    /\ nops' = nops + 1
    /\ UNCHANGED Rest

\* cfg["k1.k2...kn"] = v
SetItem ==
    /\ nops < MaxOps
    /\ \E p \in ShortPaths, v \in AssignValues :
         Commit(__setitem__(St, p, v), "setitem", p, v, FALSE)
    /\ nops' = nops + 1
    /\ UNCHANGED Rest

\* cfg.k1...kn evaluated
GetAttr ==
    /\ nops < MaxOps
    /\ \E p \in ShortPaths :
         Commit(AttrChain(St, <<>>, p), "getattr", p, None, FALSE)
    /\ nops' = nops + 1
    /\ UNCHANGED Rest

(***************************************************************************)
(* Spec: one manager without password, format json, no debounce, built    *)
(* over a path that holds no file.                                         *)
(***************************************************************************)
Init ==
    /\ auto_save = TRUE
    /\ debounce_ms = 0
    /\ pwd = NoPwd
    /\ way = "json"
    /\ urandom = 0
    /\ now = 0
    /\ \E d \in Seeds :
         Start(__init__(NoFile, FALSE, TRUE, d, FALSE, NoPwd, "json").st)
    /\ last = NoCall
    /\ fresh = NoFresh
    /\ burst = NoBurst
    /\ run = NoRun
    /\ nops = 0

Next ==
    \/ Write \/ DelKey \/ Update \/ SetData
    \/ AttrAssign \/ AttrDelete \/ SetItem \/ GetAttr
    \/ SaveCall \/ Reload

Spec == Init /\ [][Next]_vars

(***************************************************************************)
(* SpecCodec: managers of every format without password, seeded with      *)
(* trees of strings, numbers and booleans; a second manager is built over *)
(* the file the first one wrote.                                           *)
(***************************************************************************)
Passwords == {NoPwd, "P", "Q"}

\* Config(file=<the same path>, way=way, pwd=p) while the manager lives:
\* the path holds a file, so the constructor loads and writes nothing
Construct ==
    /\ file.kind # "none"
    /\ ~fresh.tried
    /\ \E p \in Passwords :
         fresh' = Built(__init__(file, temp_path, FALSE, Dict(EmptyMap), FALSE,
                                 p, way), p)
    /\ UNCHANGED <<data, dirty, save_timer, file, nwrites, temp_path, Config,
                   urandom, now, last, burst, nops, run>>

TypedSeeds == {Dict(EmptyMap), D1("a", Str1), D1("a", Int1), D1("a", True),
               D1("a", D1("b", StrV)), D1("a", D1("b", Int1)),
               D2("a", D1("b", D1("a", StrV)), "b", StrV)}
TypedPaths == {<<"a">>, <<"b">>, <<"a", "b">>}
TypedValues == {Str1, Int1, True, D1("b", StrV)}

WriteTyped ==
    /\ nops < MaxOps
    /\ \E p \in TypedPaths, v \in TypedValues :
         Commit(write(St, p, v, TRUE), "write", p, v, TRUE)
    /\ nops' = nops + 1
    /\ UNCHANGED Rest

InitCodec ==
    /\ auto_save \in BOOLEAN
    /\ debounce_ms = 0
    /\ pwd = NoPwd
    /\ way \in Formats
    /\ urandom = 0
    /\ now = 0
    /\ \E d \in TypedSeeds :
         Start(__init__(NoFile, FALSE, TRUE, d, FALSE, NoPwd, way).st)
    /\ last = NoCall
    /\ fresh = NoFresh
    /\ burst = NoBurst
    /\ run = NoRun
    /\ nops = 0

NextCodec == WriteTyped \/ SaveCall \/ Construct

SpecCodec == InitCodec /\ [][NextCodec]_vars

(***************************************************************************)
(* SpecCrypto: managers with and without password over paths that hold    *)
(* no file, a file of their own password or a file another manager wrote  *)
(* under another password; the file is changed behind the manager's back. *)
(***************************************************************************)
\* A byte of the salt or of the token of the encrypted file is changed
Tamper ==
    /\ file.kind = "enc"
    /\ file.intact /\ file.key = _cached_kdf(file.key[1], file.salt)
    /\ \/ \E x \in Salts \ {file.salt} : file' = [file EXCEPT !.salt = x]
       \/ file' = [file EXCEPT !.intact = FALSE]
    /\ last' = Call("tamper", <<>>, None, FALSE, "none")
    /\ UNCHANGED <<data, dirty, save_timer, nwrites, temp_path, Config,
                   urandom, now, fresh, burst, nops, run>>

\* os.urandom is about to return another salt
Urandom ==
    /\ pwd # NoPwd
    /\ \E x \in Salts \ {urandom} : urandom' = x
    /\ UNCHANGED <<data, dirty, save_timer, file, nwrites, temp_path, Config,
                   now, last, fresh, burst, nops, run>>

SecretPaths == {<<"a">>, <<"b", "a">>}
SecretValues == {Int1, Int2}
WriteSecret ==
    /\ nops < MaxOps
    /\ \E p \in SecretPaths, v \in SecretValues :
         Commit(write(St, p, v, FALSE), "write", p, v, FALSE)
    /\ nops' = nops + 1
    /\ UNCHANGED Rest

\* What the path holds before the manager is built: nothing, or the file a
\* manager with password q wrote for the tree d
WrittenBy(q, d) == __init__(NoFile, FALSE, TRUE, d, FALSE, q, "json").st.file
FirstFiles == {NoFile} \cup {WrittenBy(q, D1("a", Int1)) : q \in {"P", "Q"}}

InitCrypto ==
    /\ auto_save \in BOOLEAN
    /\ debounce_ms = 0
    /\ pwd \in {NoPwd, "P"}
    /\ way = "json"
    /\ urandom = 0
    /\ now = 0
    /\ \E f0 \in FirstFiles, given \in BOOLEAN, replace \in BOOLEAN :
         /\ __init__(f0, FALSE, given, IF given THEN D1("b", Int2) ELSE Dict(EmptyMap),
                     replace, pwd, way).err = "none"
         /\ Start(__init__(f0, FALSE, given,
                           IF given THEN D1("b", Int2) ELSE Dict(EmptyMap),
                           replace, pwd, way).st)
    /\ last = NoCall
    /\ fresh = NoFresh
    /\ burst = NoBurst
    /\ run = NoRun
    /\ nops = 0

NextCrypto ==
    \/ WriteSecret \/ SaveCall \/ Reload
    \/ Tamper \/ Urandom \/ Construct

SpecCrypto == InitCrypto /\ [][NextCrypto]_vars

(***************************************************************************)
(* SpecDebounce: auto_save with a debounce window, the clock and the       *)
(* timer thread.                                                           *)
(***************************************************************************)
Window == 2
MaxTime == 4
MaxCalls == 3

\* The clock advances; threading.Timer fires no earlier than its interval
Tick ==
    /\ now < MaxTime
    /\ now' = now + 1
    /\ UNCHANGED <<data, dirty, save_timer, file, nwrites, temp_path, Config,
                   urandom, last, fresh, burst, nops, run>>

\* The timer thread runs Config._flush_save
TimerFire ==
    /\ save_timer.alive
    /\ now >= save_timer.due
    /\ Commit(Ok(_flush_save(St)), "timer", <<>>, None, FALSE)
    /\ UNCHANGED <<Config, urandom, now, fresh, burst, nops, run>>

\* The call with outcome r returned normally and changed the flattened tree
Mutates(r) == r.err = "none" /\ Plain(Expand(r.st.data)) # Plain(Expand(data))

\* A call that may change the tree, with the bookkeeping of the burst: the
\* writes made when the burst began, the time of its last mutation and the
\* number of its mutations
Timed(r, op, path, val, ow) ==
    /\ Commit(r, op, path, val, ow)
    /\ burst' = [w0      |-> IF save_timer.alive THEN burst.w0 ELSE nwrites,
                 lastmut |-> IF Mutates(r) THEN now ELSE burst.lastmut,
                 n       |-> (IF save_timer.alive THEN burst.n ELSE 0)
                               + (IF Mutates(r) THEN 1 ELSE 0)]
    /\ nops' = nops + 1
    /\ UNCHANGED <<Config, urandom, now, fresh, run>>

BurstPaths == {<<"a">>, <<"a", "b">>, <<"b", "a">>}
BurstValues == {Int1, Int2}
TimedWrite ==
    /\ nops < MaxCalls
    /\ \E p \in BurstPaths, v \in BurstValues :
         Timed(write(St, p, v, TRUE), "write", p, v, TRUE)
TimedDelKey ==
    /\ nops < MaxCalls
    /\ \E p \in BurstPaths :
         Timed(Ok(del_key(St, p)), "del_key", p, None, FALSE)
TimedUpdate ==
    /\ nops < MaxCalls
    /\ \E u \in {<<Item(<<"a">>, Int2)>>,
                 <<Item(<<"b">>, Int1), Item(<<"save">>, Int1)>>} :
         Timed(update(St, u), "update", <<>>, None, FALSE)
TimedSave ==
    /\ nops < MaxCalls
    /\ Commit(Ok(save(St)), "save", <<>>, None, FALSE)
    /\ nops' = nops + 1
    /\ UNCHANGED Rest

InitDebounce ==
    /\ auto_save = TRUE
    /\ debounce_ms = Window
    /\ pwd \in {NoPwd, "P"}
    /\ way = "json"
    /\ urandom = 0
    /\ now = 0
    /\ \E d \in {Dict(EmptyMap), D1("a", D1("b", Int1))} :
         Start(__init__(NoFile, FALSE, TRUE, d, FALSE, pwd, way).st)
    /\ last = NoCall
    /\ fresh = NoFresh
    /\ burst = NoBurst
    /\ run = NoRun
    /\ nops = 0

NextDebounce ==
    \/ TimedWrite \/ TimedDelKey \/ TimedUpdate \/ TimedSave
    \/ Tick \/ TimerFire

SpecDebounce == InitDebounce /\ [][NextDebounce]_vars

(***************************************************************************)
(* SpecReload: a manager with a debounce window whose file other programs  *)
(* rewrite.  reload() runs in two steps, the load under the manager's lock *)
(* and then the assignment to _dirty, and the timer thread may run between *)
(* them.  run is [pc, pre, reloaded, w]: pre the manager when reload() was *)
(* called, reloaded whether reload() has returned and no mutating call was *)
(* made since, w the writes made when it returned.                         *)
(***************************************************************************)
\* A variant of the assignment below that leaves the flag as it is
ClearDirtySkipped(st) == st

\* Config.reload: self._dirty = False
ClearDirty(st) == [st EXCEPT !.dirty = FALSE]

NoReload == [pc |-> "idle", pre |-> NoCall.pre, reloaded |-> FALSE, w |-> 0]

\* The documents other programs put at the path
ForeignFiles == {PlainFile("json", D1("b", Int2)),
                 PlainFile("json", D2("a", D1("b", Int2), "b", Int1))}

\* Another program replaces the content of the target
ExternalEdit ==
    /\ run.pc = "idle"
    /\ \E f \in ForeignFiles \ {file} : file' = f
    /\ last' = Call("edit", <<>>, None, FALSE, "none")
    /\ UNCHANGED <<data, dirty, save_timer, nwrites, temp_path, Config,
                   urandom, now, fresh, burst, nops, run>>

\* reload(), first step: self._load()
Loading(r) ==
    /\ Install(r.st)
    /\ IF r.err # "none"
       THEN /\ last' = Call("reload", <<>>, None, FALSE, r.err)
            /\ run' = run
       ELSE /\ last' = last
            /\ run' = [run EXCEPT !.pc = "loaded", !.pre = St]
ReloadLoad ==
    /\ nops < MaxCalls
    /\ run.pc = "idle"
    /\ Loading(InitLoad(St, _load(file, pwd, way)))
    /\ nops' = nops + 1
    /\ UNCHANGED <<Config, urandom, now, fresh, burst>>

\* reload(), second step: self._dirty = False, and the call returns
ReloadClear ==
    /\ run.pc = "loaded"
    /\ Install(ClearDirty(St))
    /\ last' = [Call("reload", <<>>, None, FALSE, "none") EXCEPT !.pre = run.pre]
    /\ run' = [run EXCEPT !.pc = "idle", !.reloaded = TRUE, !.w = nwrites]
    /\ UNCHANGED <<Config, urandom, now, fresh, burst, nops>>

\* write() by the thread that calls reload()
WriteBetween ==
    /\ nops < MaxCalls
    /\ run.pc = "idle"
    /\ \E p \in {<<"a">>, <<"b", "a">>} :
         Commit(write(St, p, Int1, TRUE), "write", p, Int1, TRUE)
    /\ run' = [run EXCEPT !.reloaded = FALSE]
    /\ nops' = nops + 1
    /\ UNCHANGED <<Config, urandom, now, fresh, burst>>

\* save() by the thread that calls reload()
SaveBetween == run.pc = "idle" /\ TimedSave

InitReload ==
    /\ auto_save \in BOOLEAN
    /\ debounce_ms = Window
    /\ pwd = NoPwd
    /\ way = "json"
    /\ urandom = 0
    /\ now = 0
    /\ \E d \in {Dict(EmptyMap), D1("a", D1("b", Int1))} :
         Start(__init__(NoFile, FALSE, TRUE, d, FALSE, pwd, way).st)
    /\ last = NoCall
    /\ fresh = NoFresh
    /\ burst = NoBurst
    /\ nops = 0
    /\ run = NoReload

NextReload ==
    \/ WriteBetween \/ SaveBetween \/ ReloadLoad \/ ReloadClear
    \/ ExternalEdit \/ Tick \/ TimerFire

SpecReload == InitReload /\ [][NextReload]_vars

(***************************************************************************)
(* SpecInit: the constructor over a path that holds nothing, a plain file, *)
(* or an encrypted file of the same or of another password, intact or      *)
(* changed.  run holds the arguments of the constructor call: [pc, given,  *)
(* replace, d], given false for data=None and d the initial data.          *)
(***************************************************************************)
NoArgs == [pc |-> "idle", given |-> FALSE, replace |-> FALSE, d |-> Dict(EmptyMap)]

\* Another program removes the target
ExternalRemove ==
    /\ file.kind # "none"
    /\ file' = NoFile
    /\ last' = Call("remove", <<>>, None, FALSE, "none")
    /\ UNCHANGED <<data, dirty, save_timer, nwrites, temp_path, Config,
                   urandom, now, fresh, burst, nops, run>>

\* Config(data, file=<the same path>, way=way, replace=replace, pwd=p): the
\* second manager loads, or seeds and saves; what it wrote is on disk
Constructed(r, p, given, d, replace) ==
    /\ fresh' = Built(r, p)
    /\ file' = r.st.file
    /\ temp_path' = r.st.tmp
    /\ run' = [pc |-> "idle", given |-> given, replace |-> replace, d |-> d]
    /\ last' = Call("construct", <<>>, d, replace, r.err)
ConstructOver ==
    /\ ~fresh.tried
    /\ \E p \in Passwords, given \in BOOLEAN, replace \in BOOLEAN :
         Constructed(__init__(file, temp_path, given,
                              IF given THEN D1("b", Int2) ELSE Dict(EmptyMap),
                              replace, p, way),
                     p, given,
                     IF given THEN D1("b", Int2) ELSE Dict(EmptyMap), replace)
    /\ UNCHANGED <<data, dirty, save_timer, nwrites, Config, urandom, now,
                   burst, nops>>

InitInit ==
    /\ auto_save \in BOOLEAN
    /\ debounce_ms = 0
    /\ pwd \in {NoPwd, "P"}
    /\ way = "json"
    /\ urandom = 0
    /\ now = 0
    /\ \E d \in {Dict(EmptyMap), D1("a", Int1)} :
         Start(__init__(NoFile, FALSE, TRUE, d, FALSE, pwd, way).st)
    /\ last = NoCall
    /\ fresh = NoFresh
    /\ burst = NoBurst
    /\ nops = 0
    /\ run = NoArgs

NextInit ==
    \/ WriteSecret \/ SaveCall \/ Tamper \/ ExternalRemove \/ ConstructOver

SpecInit == InitInit /\ [][NextInit]_vars

(***************************************************************************)
(* SpecLock: processes with process_safe=True that save to and load from   *)
(* the same target.  Config._process_lock touches "<file>.lock" when it is *)
(* missing, opens it and takes a flock on the open file, which is a lock   *)
(* on the inode the descriptor refers to; save() removes the lock file     *)
(* after it has left the section.  run is [pc, lockpath, nino, proc]:      *)
(* lockpath the inode that stands at "<file>.lock" (0 when none), nino the *)
(* number of inodes made so far, proc[p] = [pc, op, ino] where process p   *)
(* stands, in which operation, and the inode its descriptor refers to.     *)
(***************************************************************************)
Procs == {1, 2}
MaxInodes == 3

NoProc == [pc |-> "idle", op |-> "none", ino |-> 0]
NoLocks == [pc |-> "idle", lockpath |-> 0, nino |-> 0,
            proc |-> [p \in Procs |-> NoProc]]

\* The variables of the manager, which the lock protocol leaves alone
Manager == <<data, dirty, save_timer, file, nwrites, temp_path, Config,
             urandom, now, last, fresh, burst, nops>>

\* Config._process_lock: if not path_obj.exists(): path_obj.touch()
Touched(p, op) ==
    IF run.lockpath # 0
    THEN [run EXCEPT !.proc[p] = [pc |-> "touched", op |-> op, ino |-> 0]]
    ELSE [run EXCEPT !.lockpath = run.nino + 1, !.nino = run.nino + 1,
                     !.proc[p] = [pc |-> "touched", op |-> op, ino |-> 0]]
LockTouch ==
    /\ \E p \in Procs, op \in {"save", "load"} :
         /\ run.proc[p].pc = "idle"
         /\ run.lockpath # 0 \/ run.nino < MaxInodes
         /\ run' = Touched(p, op)
    /\ UNCHANGED Manager

\* portalocker.Lock opens the lock file in mode 'a', which creates it when
\* it is missing
Opened(p) ==
    IF run.lockpath # 0
    THEN [run EXCEPT !.proc[p].pc = "opened", !.proc[p].ino = run.lockpath]
    ELSE [run EXCEPT !.lockpath = run.nino + 1, !.nino = run.nino + 1,
                     !.proc[p].pc = "opened", !.proc[p].ino = run.nino + 1]
LockOpen ==
    /\ \E p \in Procs :
         /\ run.proc[p].pc = "touched"
         /\ run.lockpath # 0 \/ run.nino < MaxInodes
         /\ run' = Opened(p)
    /\ UNCHANGED Manager

\* flock(LOCK_EX) for save, flock(LOCK_SH) for load, on the open file: it
\* is granted when no other process holds a conflicting lock on that inode
Shared(p) == run.proc[p].op = "load"
Inside(p) == run.proc[p].pc = "inside"
Granted(p) ==
    \A q \in Procs \ {p} :
        (Inside(q) /\ run.proc[q].ino = run.proc[p].ino)
            => (Shared(p) /\ Shared(q))
LockAcquire ==
    /\ \E p \in Procs :
         /\ run.proc[p].pc = "opened"
         /\ Granted(p)
         /\ run' = [run EXCEPT !.proc[p].pc = "inside"]
    /\ UNCHANGED Manager

\* The with block ends: the lock is released and the file closed; save()
\* goes on to _cleanup_lock_file, _load returns
LockRelease ==
    /\ \E p \in Procs :
         /\ Inside(p)
         /\ run' = [run EXCEPT !.proc[p] =
                        IF Shared(p) THEN NoProc
                        ELSE [pc |-> "cleanup", op |-> "save", ino |-> 0]]
    /\ UNCHANGED Manager

\* Config._cleanup_lock_file: os.remove(lock_path).  Where an open file
\* cannot be removed the OSError is ignored and the file stays.
InUse == \E q \in Procs : run.proc[q].ino = run.lockpath /\ run.lockpath # 0
LockCleanup ==
    /\ \E p \in Procs :
         /\ run.proc[p].pc = "cleanup"
         /\ \/ run' = [run EXCEPT !.lockpath = 0, !.proc[p] = NoProc]
            \/ InUse /\ run' = [run EXCEPT !.proc[p] = NoProc]
    /\ UNCHANGED Manager

InitLock ==
    /\ auto_save = FALSE
    /\ debounce_ms = 0
    /\ pwd = NoPwd
    /\ way = "json"
    /\ urandom = 0
    /\ now = 0
    /\ Start(__init__(NoFile, FALSE, TRUE, D1("a", Int1), FALSE, pwd, way).st)
    /\ last = NoCall
    /\ fresh = NoFresh
    /\ burst = NoBurst
    /\ nops = 0
    /\ run = NoLocks

NextLock ==
    \/ LockTouch \/ LockOpen \/ LockAcquire \/ LockRelease \/ LockCleanup

SpecLock == InitLock /\ [][NextLock]_vars

(***************************************************************************)
(* SpecThreads: two threads on one manager.  One calls update(), which     *)
(* takes no lock: mark_dirty, then one item of the dict per round of its   *)
(* loop, then _auto_save_if_needed.  The other calls save() and reload(),  *)
(* which hold Config._lock while they run, between any two of these steps. *)
(* run is [pc, items, done, pre]: the argument of the update in progress,  *)
(* the number of its items applied, and the manager when it was called.    *)
(***************************************************************************)
NoUpdate == [pc |-> "idle", items |-> <<>>, done |-> 0, pre |-> NoCall.pre]

ThreadUpdates == {<<Item(<<"b">>, Int1), Item(<<"a">>, Int2)>>,
                  <<Item(<<"a", "b">>, Int2), Item(<<"b">>, Int1)>>,
                  <<Item(<<"b">>, Int2), Item(<<"save">>, Int1)>>,
                  <<Item(<<"a">>, D1("b", Int2)), Item(<<"b">>, Int1),
                    Item(<<"a", "a">>, Int1)>>}

\* update(data) is called: self.mark_dirty()
UpdateBegin ==
    /\ nops < MaxOps
    /\ run.pc = "idle"
    /\ \E u \in ThreadUpdates :
         run' = [pc |-> "update", items |-> u, done |-> 0, pre |-> St]
    /\ Install(mark_dirty(St))
    /\ nops' = nops + 1
    /\ UNCHANGED <<Config, urandom, now, last, fresh, burst>>

\* One round of the loop of update; an item that raises ends the call
Stepped(r) ==
    /\ Install(r.st)
    /\ IF r.err # "none"
       THEN /\ last' = [Call("update", <<>>, None, FALSE, r.err) EXCEPT !.pre = run.pre]
            /\ run' = NoUpdate
       ELSE /\ last' = last
            /\ run' = [run EXCEPT !.done = run.done + 1]
UpdateStep ==
    /\ run.pc = "update"
    /\ run.done < Len(run.items)
    /\ Stepped(UpdateItem(St, run.items[run.done + 1]))
    /\ UNCHANGED <<Config, urandom, now, fresh, burst, nops>>

\* The loop is over: self._auto_save_if_needed(), and update returns
UpdateEnd ==
    /\ run.pc = "update"
    /\ run.done = Len(run.items)
    /\ Install(_auto_save_if_needed(St))
    /\ last' = [Call("update", <<>>, None, FALSE, "none") EXCEPT !.pre = run.pre]
    /\ run' = NoUpdate
    /\ UNCHANGED <<Config, urandom, now, fresh, burst, nops>>

InitThreads ==
    /\ auto_save \in BOOLEAN
    /\ debounce_ms = 0
    /\ pwd = NoPwd
    /\ way = "json"
    /\ urandom = 0
    /\ now = 0
    /\ \E d \in {Dict(EmptyMap), D1("a", Int1), D1("a", D1("a", Int2))} :
         Start(__init__(NoFile, FALSE, TRUE, d, FALSE, pwd, way).st)
    /\ last = NoCall
    /\ fresh = NoFresh
    /\ burst = NoBurst
    /\ nops = 0
    /\ run = NoUpdate

NextThreads ==
    \/ UpdateBegin \/ UpdateStep \/ UpdateEnd
    \/ SaveCall \/ Reload

SpecThreads == InitThreads /\ [][NextThreads]_vars

(***************************************************************************)
(* SpecPublish: save() one system call at a time, so that what stands at   *)
(* the target path, at "<file>.tmp" and at "<file>.lock" is seen between   *)
(* any two of them.  run is [pc, safe, lock, tmp, snap, pub, outcome]:     *)
(* safe is Config._process_safe, lock whether the lock file exists, tmp    *)
(* the bytes of the temporary file, snap the bytes being written, pub the  *)
(* bytes the last os.replace (or the program that made the file) put at    *)
(* the target, outcome how the last save() ended.                          *)
(***************************************************************************)
NoSave == [pc |-> "idle", safe |-> FALSE, lock |-> FALSE, tmp |-> NoFile,
           snap |-> NoFile, pub |-> NoFile, outcome |-> "none"]

\* save() returns: run is idle again, with the way it ended
Returned(st, how) ==
    /\ Install(st)
    /\ last' = Call("save", <<>>, None, FALSE, "none")
    /\ run' = [run EXCEPT !.pc = "idle", !.outcome = how]

\* save(): cancel the timer; return when clean; the check on the file
\* there; any exception is logged and swallowed
SaveBegin ==
    /\ nops < MaxOps
    /\ run.pc = "idle"
    /\ IF ~dirty THEN Returned(CancelTimer(St), "noop")
       ELSE IF PreCheckFails(St) THEN Returned(CancelTimer(St), "refused")
       ELSE /\ Install(CancelTimer(St))
            /\ last' = last
            /\ run' = [run EXCEPT !.pc = "ensure", !.outcome = "none"]
    /\ nops' = nops + 1
    /\ UNCHANGED <<Config, urandom, now, fresh, burst>>

\* Config._ensure_file_exists: path.touch() when nothing is at the target
_ensure_file_exists(f) == IF f.kind = "none" THEN EmptyFile ELSE f
SaveEnsure ==
    /\ run.pc = "ensure"
    /\ file' = _ensure_file_exists(file)
    /\ run' = [run EXCEPT !.pc = IF run.safe THEN "lock" ELSE "open"]
    /\ UNCHANGED <<data, dirty, save_timer, nwrites, temp_path, Config,
                   urandom, now, last, fresh, burst, nops>>

\* Config._process_lock(shared=False): touch the lock file, lock it
SaveLock ==
    /\ run.pc = "lock"
    /\ run' = [run EXCEPT !.pc = "open", !.lock = TRUE]
    /\ UNCHANGED <<data, dirty, save_timer, file, nwrites, temp_path, Config,
                   urandom, now, last, fresh, burst, nops>>

\* config_data = self._data.dict; open(temp_path, 'wb')
SaveOpen ==
    /\ run.pc = "open"
    /\ temp_path' = TRUE
    /\ run' = [run EXCEPT !.pc = "write", !.tmp = EmptyFile,
                          !.snap = FileBytes(St)]
    /\ UNCHANGED <<data, dirty, save_timer, file, nwrites, Config,
                   urandom, now, last, fresh, burst, nops>>

\* f.write(...); f.flush(); os.fsync(f.fileno())
SaveWrite ==
    /\ run.pc = "write"
    /\ run' = [run EXCEPT !.pc = "replace", !.tmp = run.snap]
    /\ UNCHANGED <<data, dirty, save_timer, file, nwrites, temp_path, Config,
                   urandom, now, last, fresh, burst, nops>>

\* os.replace(temp_path, target_file), and the process lock is released
SaveReplace ==
    /\ run.pc = "replace"
    /\ file' = run.tmp
    /\ temp_path' = FALSE
    /\ nwrites' = nwrites + 1
    /\ run' = [run EXCEPT !.pc = "done", !.pub = run.tmp]
    /\ UNCHANGED <<data, dirty, save_timer, Config, urandom, now, last,
                   fresh, burst, nops>>

\* The except branch of _write_to_file: os.remove(temp_path) if it exists
RemoveTmp(t) == FALSE

\* Config._cleanup_lock_file: os.remove(lock_path) when process_safe
_cleanup_lock_file(safe, l) == IF safe THEN FALSE ELSE l

\* self._dirty = False; self._cleanup_lock_file(); save() returns
SaveDone ==
    /\ run.pc = "done"
    /\ Install([St EXCEPT !.dirty = FALSE])
    /\ last' = Call("save", <<>>, None, FALSE, "none")
    /\ run' = [run EXCEPT !.pc = "idle", !.outcome = "wrote",
                          !.lock = _cleanup_lock_file(run.safe, run.lock)]
    /\ UNCHANGED <<Config, urandom, now, fresh, burst, nops>>

\* A system call of _write_to_file raises (the lock cannot be taken, the
\* temporary file cannot be opened or written, os.replace fails): the
\* temporary file is removed, save() logs the error and returns
SaveRaise ==
    /\ run.pc \in {"lock", "open", "write", "replace"}
    /\ Returned([St EXCEPT !.tmp = RemoveTmp(St.tmp)], "failed")
    /\ UNCHANGED <<Config, urandom, now, fresh, burst, nops>>

\* reload(): _load under _process_lock(shared=True), which touches the
\* lock file when process_safe
ReloadShared ==
    /\ nops < MaxOps
    /\ run.pc = "idle"
    /\ Commit(reload(St), "reload", <<>>, None, FALSE)
    /\ run' = [run EXCEPT !.lock = run.safe \/ run.lock]
    /\ nops' = nops + 1
    /\ UNCHANGED <<Config, urandom, now, fresh, burst>>

\* cfg.write('a', v) by the application, auto_save off
Change ==
    /\ nops < MaxOps
    /\ \E v \in {Int1, Int2} :
         Commit(write(St, <<"a">>, v, TRUE), "write", <<"a">>, v, TRUE)
    /\ nops' = nops + 1
    /\ UNCHANGED Rest

\* Config(d, file=..., pwd=pwd, process_safe=safe): over an existing file
\* the constructor loads it (under the shared lock); over none it seeds the
\* tree and calls self.save(), which is then at its first system call
Seeding1(safe, d) ==
    /\ Start(NewManager(NoFile, FALSE, TRUE, d, pwd, way))
    /\ run = [NoSave EXCEPT !.pc = "ensure", !.safe = safe]
Loading1(safe, f0, r) ==
    /\ r.err = "none"
    /\ Start(r.st)
    /\ run = [NoSave EXCEPT !.safe = safe, !.lock = safe, !.pub = f0]
InitPublish ==
    /\ auto_save = FALSE
    /\ debounce_ms = 0
    /\ pwd \in {NoPwd, "P"}
    /\ way = "json"
    /\ urandom = 0
    /\ now = 0
    /\ \E safe \in BOOLEAN :
         \/ \E d \in {Dict(EmptyMap), D1("a", Int1)} : Seeding1(safe, d)
         \/ \E f0 \in FirstFiles \ {NoFile} :
              Loading1(safe, f0, __init__(f0, FALSE, FALSE, Dict(EmptyMap),
                                          FALSE, pwd, way))
    /\ last = NoCall
    /\ fresh = NoFresh
    /\ burst = NoBurst
    /\ nops = 0

NextPublish ==
    \/ SaveBegin \/ SaveEnsure \/ SaveLock \/ SaveOpen \/ SaveWrite
    \/ SaveReplace \/ SaveDone \/ SaveRaise
    \/ ReloadShared \/ Change \/ ExternalRemove

SpecPublish == InitPublish /\ [][NextPublish]_vars

(***************************************************************************)
(* SpecNode: the idioms that act on a node of the tree, auto_save off, so  *)
(* that the dirty flag is what each of them left.  cfg.pop, cfg.popitem    *)
(* and cfg.clear are the methods MutableMapping gives ConfigNode, found    *)
(* through Config.__getattr__ on the root and by ordinary lookup below it. *)
(***************************************************************************)
\* MutableMapping.pop(key) on the node the chain gave: value = self[key],
\* then del self[key]
PopOn(c, key) ==
    IF ~c.node THEN Err(c.st, "AttributeError")
    ELSE IF key \notin DOMAIN GetAt(c.st.data, c.cur).m THEN Err(c.st, "NotFound")
    ELSE NodeDelItem(NodeGetItem(c.st, c.cur, key), c.cur, key)
pop(st, keys) == PopOn(AttrChain(st, <<>>, Front(keys)), Last(keys))

\* MutableMapping.popitem(): key = next(iter(self)), then as pop(key); with
\* auto_save off the order of the keys shows in nothing the manager keeps
FirstKey(node) == CHOOSE k \in DOMAIN node.m : TRUE
popitem(st, cur) ==
    IF GetAt(st.data, cur).m = EmptyMap THEN Err(st, "NotFound")
    ELSE PopOn([st |-> st, err |-> "none", node |-> TRUE, cur |-> cur],
               FirstKey(GetAt(st.data, cur)))

\* MutableMapping.clear(): popitem() until KeyError
RECURSIVE ClearLoop(_, _)
ClearLoop(st, cur) ==
    IF GetAt(st.data, cur).m = EmptyMap THEN Ok(st)
    ELSE ClearLoop(popitem(st, cur).st, cur)
ClearOn(c) ==
    IF ~c.node THEN Err(c.st, "AttributeError") ELSE ClearLoop(c.st, c.cur)
clear(st, keys) == ClearOn(AttrChain(st, <<>>, keys))

\* cfg.k1...kn.pop(k)
Pop ==
    /\ nops < MaxOps
    /\ \E p \in ShortPaths :
         Commit(pop(St, p), "pop", p, None, FALSE)
    /\ nops' = nops + 1
    /\ UNCHANGED Rest

\* cfg.clear() and cfg.a.clear()
NodePaths == {<<>>, <<"a">>}
Clear ==
    /\ nops < MaxOps
    /\ \E p \in NodePaths :
         Commit(clear(St, p), "clear", p, None, FALSE)
    /\ nops' = nops + 1
    /\ UNCHANGED Rest

InitNode ==
    /\ auto_save = FALSE
    /\ debounce_ms = 0
    /\ pwd = NoPwd
    /\ way = "json"
    /\ urandom = 0
    /\ now = 0
    /\ \E d \in Seeds \cup {D1("a", Int1)} :
         Start(__init__(NoFile, FALSE, TRUE, d, FALSE, NoPwd, "json").st)
    /\ last = NoCall
    /\ fresh = NoFresh
    /\ burst = NoBurst
    /\ run = NoRun
    /\ nops = 0

NextNode ==
    \/ AttrAssign \/ AttrDelete \/ SetItem \/ Pop \/ Clear \/ SaveCall

SpecNode == InitNode /\ [][NextNode]_vars

(***************************************************************************)
(* SpecDelete: del_key over trees with siblings and empty mappings beside  *)
(* the path, with auto_save on or off; writes turn dicts on their way into *)
(* ConfigNodes.                                                            *)
(***************************************************************************)
DeleteSeeds ==
    {Dict(EmptyMap),
     D1("a", D1("b", D1("a", Int1))),
     D2("a", D2("a", Int1, "b", D1("a", Int2)), "b", Dict(EmptyMap)),
     D2("a", D2("a", Dict(EmptyMap), "b", D1("a", Int2)), "b", Int2)}

InitDelete ==
    /\ auto_save \in BOOLEAN
    /\ debounce_ms = 0
    /\ pwd = NoPwd
    /\ way = "json"
    /\ urandom = 0
    /\ now = 0
    /\ \E d \in DeleteSeeds :
         Start(__init__(NoFile, FALSE, TRUE, d, FALSE, NoPwd, "json").st)
    /\ last = NoCall
    /\ fresh = NoFresh
    /\ burst = NoBurst
    /\ run = NoRun
    /\ nops = 0

NextDelete == Write \/ DelKey \/ SaveCall

SpecDelete == InitDelete /\ [][NextDelete]_vars

(***************************************************************************)
(* SpecRead: the read idioms between writes, auto_save on or off.  run is  *)
(* [pc, ret]: ret is what the last read idiom returned.                    *)
(***************************************************************************)
NoRet == [pc |-> "idle", ret |-> None]
Defaults == {None, Str1}

\* A read idiom that gave r = [st, err, val] is over
Returns(r, op, path, default) ==
    /\ Install(r.st)
    /\ last' = Call(op, path, default, FALSE, r.err)
    /\ run' = [pc |-> "idle", ret |-> r.val]

\* cfg.read(p, d), cfg(p, d)
ReadCall ==
    /\ nops < MaxOps
    /\ \E p \in Paths, d \in Defaults : Returns(read(St, p, d), "read", p, d)
    /\ nops' = nops + 1
    /\ UNCHANGED <<Config, urandom, now, fresh, burst>>

\* cfg["k1.k2...kn"]
SubscriptRead ==
    /\ nops < MaxOps
    /\ \E p \in ShortPaths : Returns(__getitem__(St, p), "getitem", p, None)
    /\ nops' = nops + 1
    /\ UNCHANGED <<Config, urandom, now, fresh, burst>>

\* "k1.k2...kn" in cfg
Contains ==
    /\ nops < MaxOps
    /\ \E p \in ShortPaths : Returns(__contains__(St, p), "contains", p, None)
    /\ nops' = nops + 1
    /\ UNCHANGED <<Config, urandom, now, fresh, burst>>

\* cfg.write(p, 1, overwrite_mode=True) between the reads: the dicts on
\* the way become ConfigNodes
WriteBefore ==
    /\ nops < MaxOps
    /\ \E p \in {<<"a", "b">>, <<"b">>} :
         Commit(write(St, p, Int1, TRUE), "write", p, Int1, TRUE)
    /\ nops' = nops + 1
    /\ UNCHANGED Rest

ReadSeeds == Seeds \cup {D2("a", Int1, "b", D1("a", None))}

InitRead ==
    /\ auto_save \in BOOLEAN
    /\ debounce_ms = 0
    /\ pwd = NoPwd
    /\ way = "json"
    /\ urandom = 0
    /\ now = 0
    /\ \E d \in ReadSeeds :
         Start(__init__(NoFile, FALSE, TRUE, d, FALSE, NoPwd, "json").st)
    /\ last = NoCall
    /\ fresh = NoFresh
    /\ burst = NoBurst
    /\ run = NoRet
    /\ nops = 0

NextRead == WriteBefore \/ ReadCall \/ SubscriptRead \/ Contains

SpecRead == InitRead /\ [][NextRead]_vars

(***************************************************************************)
(* SpecSnapshot: the caller keeps what to_dict() returned and assigns into *)
(* it.  ConfigNode._expand copies the mapping of every ConfigNode and puts *)
(* every other value, a dict included, into the result as it is: a dict of *)
(* the tree that no access has wrapped, and all below it, is one object    *)
(* with the dict in the result.                                            *)
(***************************************************************************)
\* The mapping at path c of the result is an object of the tree
SharedAt(root, c) ==
    \E i \in 1..Len(c) :
        /\ HasPath(root, Prefix(c, i))
        /\ IsDict(GetAt(root, Prefix(c, i)))

\* d = cfg.to_dict()
ToDict ==
    /\ nops < MaxOps
    /\ Returns(Gave(St, "none", Expand(data)), "to_dict", <<>>, None)
    /\ nops' = nops + 1
    /\ UNCHANGED <<Config, urandom, now, fresh, burst>>

\* d[k1]...[kn] = v on the mapping just returned: the assignment acts on
\* the object at k1...k(n-1), which is the result's own or the tree's
Assigned(st, q, v) ==
    IF SharedAt(st.data, Front(q))
    THEN PutAt(st, Front(q), GetAt(st.data, Front(q)), Last(q), v)
    ELSE st
AssignInResult ==
    /\ last.op = "to_dict"
    /\ \E q \in Paths :
         /\ HasPath(run.ret, Front(q)) /\ IsMapping(GetAt(run.ret, Front(q)))
         /\ Install(Assigned(St, q, Int2))
         /\ last' = Call("assign_in_result", q, Int2, FALSE, "none")
    /\ UNCHANGED <<Config, urandom, now, fresh, burst, nops, run>>

NextSnapshot == WriteBefore \/ Reload \/ ToDict \/ AssignInResult

SpecSnapshot == InitRead /\ [][NextSnapshot]_vars

(***************************************************************************)
(* SpecClean: clean_del() between the steps of SpecPublish, on a manager   *)
(* at rest.                                                                *)
(***************************************************************************)
\* Config.clean_del: mark_dirty; when a file stands at the target, remove
\* it, remove the lock file when process_safe, and take an empty tree;
\* else return False
clean_del(st) ==
    IF st.file.kind = "none" THEN mark_dirty(st)
    ELSE [mark_dirty(st) EXCEPT !.file = NoFile,
                                !.data = ConfigNode(Dict(EmptyMap))]
CleanDel ==
    /\ run.pc = "idle"
    /\ last.op # "clean_del"
    /\ Commit(Ok(clean_del(St)), "clean_del", <<>>, None, FALSE)
    /\ run' = [run EXCEPT !.lock = IF file.kind = "none" THEN run.lock
                                   ELSE _cleanup_lock_file(run.safe, run.lock)]
    /\ UNCHANGED <<Config, urandom, now, fresh, burst, nops>>

NextClean == NextPublish \/ CleanDel

SpecClean == InitPublish /\ [][NextClean]_vars

(***************************************************************************)
(* SpecExport: to_file(other, way) on a manager with a debounce window, so *)
(* that a timer may be pending.  run is [pc, safe, lock, was, out]: lock   *)
(* whether the lock file of the primary target exists, was the same before *)
(* the last to_file, out the file at the path exported to.                 *)
(***************************************************************************)
NoExport == [pc |-> "idle", safe |-> FALSE, lock |-> FALSE, was |-> FALSE,
             out |-> NoFile]

\* Config.to_file(file, way): _write_to_file(target_file, target_way) under
\* _process_lock, which is the lock of self._file, then _cleanup_lock_file
Exported(st, target_way) == FileBytes([st EXCEPT !.way = target_way])
ToFile ==
    /\ nops < MaxOps
    /\ \E w \in Formats :
         run' = [run EXCEPT !.out = Exported(St, w), !.was = run.lock,
                            !.lock = _cleanup_lock_file(run.safe, run.lock)]
    /\ Commit(Ok(St), "to_file", <<>>, None, FALSE)
    /\ nops' = nops + 1
    /\ UNCHANGED <<Config, urandom, now, fresh, burst>>

\* cfg.write('b', v): with auto_save the debounce timer is started
ChangeTimed ==
    /\ nops < MaxOps
    /\ \E v \in {Int1, Int2} :
         Commit(write(St, <<"b">>, v, TRUE), "write", <<"b">>, v, TRUE)
    /\ nops' = nops + 1
    /\ UNCHANGED Rest

InitExport ==
    /\ auto_save \in BOOLEAN
    /\ debounce_ms = Window
    /\ pwd \in {NoPwd, "P"}
    /\ way = "json"
    /\ urandom = 0
    /\ now = 0
    /\ \E d \in {Dict(EmptyMap), D1("a", D1("b", Int1))} :
         Start(__init__(NoFile, FALSE, TRUE, d, FALSE, pwd, way).st)
    /\ last = NoCall
    /\ fresh = NoFresh
    /\ burst = NoBurst
    /\ \E safe \in BOOLEAN : run = [NoExport EXCEPT !.safe = safe]
    /\ nops = 0

NextExport == ToFile \/ ChangeTimed \/ ReloadShared

SpecExport == InitExport /\ [][NextExport]_vars

(***************************************************************************)
(* SpecFlush: the debounce timer fires while the save cannot succeed: the  *)
(* file at the target fails the check, or the disk refuses the write.      *)
(* run is [pc, fault, under, failed, retried]: fault says that writes fail *)
(* now, under that they did during the last save, failed that a flush has  *)
(* failed and no save has succeeded since, retried that the last call was  *)
(* the save() that succeeded after such a flush.                           *)
(***************************************************************************)
NoFault == [pc |-> "idle", fault |-> FALSE, under |-> FALSE, failed |-> FALSE,
            retried |-> FALSE]

\* The try block of save(): the check on the file there, then
\* _write_to_file, which removes the temporary file when it raises
SaveTry(st, fault) ==
    IF PreCheckFails(st) THEN Err(st, "IntegrityFailure")
    ELSE IF fault THEN Err([st EXCEPT !.tmp = RemoveTmp(st.tmp)], "IOFailure")
    ELSE Ok([_write_to_file(st) EXCEPT !.dirty = FALSE])

\* A variant of the handler below that lets the exception through
Propagated(r) == r

\* except Exception as e: logger.error(...)
Swallowed(r) == Ok(r.st)

\* save() while writes fail or not
SaveLockedUnder(st, fault) ==
    IF ~st.dirty THEN Ok(st) ELSE Swallowed(SaveTry(st, fault))
SaveUnder(st, fault) == SaveLockedUnder(CancelTimer(st), fault)

\* _flush_save: try: self.save() finally: self._save_timer = None
Finally(r) == [st |-> [r.st EXCEPT !.timer = NoTimer], err |-> r.err]
FlushUnder(st, fault) == Finally(SaveUnder(st, fault))

\* The save inside this call failed
FailsUnder(st, fault) == st.dirty /\ SaveTry(CancelTimer(st), fault).err # "none"

Ended(r, op, failed) ==
    /\ Install(r.st)
    /\ last' = Call(op, <<>>, None, FALSE, r.err)
    /\ run' = [run EXCEPT !.under = run.fault,
                          !.failed = IF failed THEN op = "timer" \/ run.failed
                                     ELSE IF r.st.dirty THEN run.failed ELSE FALSE,
                          !.retried = /\ op = "save" /\ run.failed
                                      /\ ~failed /\ ~r.st.dirty]

\* The timer thread runs _flush_save
FlushFire ==
    /\ save_timer.alive
    /\ now >= save_timer.due
    /\ Ended(FlushUnder(St, run.fault), "timer", FailsUnder(St, run.fault))
    /\ UNCHANGED <<Config, urandom, now, fresh, burst, nops>>

\* cfg.save() by the application
ExplicitSave ==
    /\ nops < MaxOps
    /\ Ended(SaveUnder(St, run.fault), "save", FailsUnder(St, run.fault))
    /\ nops' = nops + 1
    /\ UNCHANGED <<Config, urandom, now, fresh, burst>>

\* The disk begins or ceases to refuse writes
Fault ==
    /\ run' = [run EXCEPT !.fault = ~run.fault]
    /\ UNCHANGED <<data, dirty, save_timer, file, nwrites, temp_path, Config,
                   urandom, now, last, fresh, burst, nops>>

InitFlush ==
    /\ auto_save = TRUE
    /\ debounce_ms = Window
    /\ pwd \in {NoPwd, "P"}
    /\ way = "json"
    /\ urandom = 0
    /\ now = 0
    /\ \E d \in {Dict(EmptyMap), D1("a", D1("b", Int1))} :
         Start(__init__(NoFile, FALSE, TRUE, d, FALSE, pwd, way).st)
    /\ last = NoCall
    /\ fresh = NoFresh
    /\ burst = NoBurst
    /\ run = NoFault
    /\ nops = 0

NextFlush ==
    \/ ChangeTimed \/ Tick \/ FlushFire \/ ExplicitSave
    \/ Fault \/ Tamper \/ ExternalRemove

SpecFlush == InitFlush /\ [][NextFlush]_vars

(***************************************************************************)
(* SpecWith: `with Config(...) as cfg:`, changes of the tree inside the    *)
(* block by the manager's methods and by the node idioms, then the exit.   *)
(***************************************************************************)
\* Config.__exit__: self.save()
__exit__(st) == save(st)

Exit ==
    /\ last.op # "exit"
    /\ Commit(Ok(__exit__(St)), "exit", <<>>, None, FALSE)
    /\ UNCHANGED <<nops, Rest>>

InitWith ==
    /\ auto_save \in BOOLEAN
    /\ debounce_ms = 0
    /\ pwd = NoPwd
    /\ way = "json"
    /\ urandom = 0
    /\ now = 0
    /\ \E d \in Seeds \cup {D1("a", Int1)} :
         Start(__init__(NoFile, FALSE, TRUE, d, FALSE, NoPwd, "json").st)
    /\ last = NoCall
    /\ fresh = NoFresh
    /\ burst = NoBurst
    /\ run = NoRun
    /\ nops = 0

NextWith ==
    \/ Write \/ DelKey \/ AttrAssign \/ AttrDelete \/ SetItem
    \/ Pop \/ Clear \/ Exit

SpecWith == InitWith /\ [][NextWith]_vars

(***************************************************************************)
(* SpecWatch: enable_watch / disable_watch and the handler the observer    *)
(* thread runs, while other programs modify the target.  run is            *)
(* [pc, observer, queue, edits, unwatched, dropped, returned, late, kept]: *)
(* pc is the position of the handler, observer says that self._observer is *)
(* set, queue holds the events not yet dispatched; unwatched says that the *)
(* target was modified while no observer ran, or that the observer was     *)
(* stopped before it dispatched the event, and no load was made since;     *)
(* dropped that the handler has ignored an event since the last load;      *)
(* returned                                                                *)
(* that disable_watch has returned, late that it did so while the handler  *)
(* was inside reload(), kept the tree at that moment.                      *)
(***************************************************************************)
MaxEdits == 2

NoWatch == [pc |-> "idle", observer |-> FALSE, queue |-> <<>>, edits |-> 0,
            unwatched |-> FALSE, dropped |-> FALSE, returned |-> FALSE,
            late |-> FALSE, kept |-> None]

\* The events of the observer: the kind and event.src_path, which names
\* the target or the temporary file beside it
Event(kind, src) == [kind |-> kind, src |-> src]

\* What the observer reports when the target is rewritten in place, and
\* when a temporary file beside it is renamed onto it: the rename as a
\* move from the temporary file, or, by observers that compare listings,
\* as a creation of the target
RewriteEvents == {Event("modified", "file")}
ReplaceEvents == {Event("moved", "file.tmp"), Event("created", "file")}

\* _Handler.on_modified (= on_created = on_moved):
\* if event.src_path == self._manager._file
Matches(ev) == ev.src = "file"

\* Config.enable_watch: an observer on the directory of the target
EnableWatch ==
    /\ ~run.observer
    /\ run.pc = "idle"
    /\ run' = [run EXCEPT !.observer = TRUE, !.queue = <<>>,
                          !.returned = FALSE, !.late = FALSE]
    /\ last' = Call("enable_watch", <<>>, None, FALSE, "none")
    /\ UNCHANGED <<data, dirty, save_timer, file, nwrites, temp_path, Config,
                   urandom, now, fresh, burst, nops>>

\* Config.disable_watch: observer.stop(), observer.join(timeout=1),
\* self._observer = None; the join returns after a second also when the
\* handler is still running
DisableWatch ==
    /\ run.observer
    /\ run' = [run EXCEPT !.observer = FALSE, !.queue = <<>>,
                          !.returned = TRUE, !.late = (run.pc # "idle"),
                          !.unwatched = run.unwatched \/ run.queue # <<>>,
                          !.kept = data]
    /\ last' = Call("disable_watch", <<>>, None, FALSE, "none")
    /\ UNCHANGED <<data, dirty, save_timer, file, nwrites, temp_path, Config,
                   urandom, now, fresh, burst, nops>>

\* Another program has put f at the target and the observer, when one
\* runs, has queued ev
Modified(f, ev) ==
    /\ run.edits < MaxEdits
    /\ file' = f
    /\ run' = [run EXCEPT !.edits = run.edits + 1,
                          !.queue = IF run.observer THEN Append(run.queue, ev)
                                    ELSE run.queue,
                          !.unwatched = run.unwatched \/ ~run.observer]
    /\ last' = Call("edit", <<>>, None, FALSE, "none")
    /\ UNCHANGED <<data, dirty, save_timer, nwrites, temp_path, Config,
                   urandom, now, fresh, burst, nops>>

\* open(file, "w") and write by another program
ExternalRewrite ==
    \E f \in ForeignFiles \ {file}, ev \in RewriteEvents : Modified(f, ev)

\* Another program writes "<file>.tmp" and renames it onto the target, as
\* _write_to_file of a manager in another process does
ExternalReplace ==
    \E f \in ForeignFiles \ {file}, ev \in ReplaceEvents : Modified(f, ev)

\* The observer thread hands the next event to the handler
Dispatch ==
    /\ run.observer
    /\ run.pc = "idle"
    /\ run.queue # <<>>
    /\ run' = [run EXCEPT !.queue = Tail(run.queue),
                          !.pc = IF Matches(Head(run.queue)) THEN "reloading"
                                 ELSE "idle",
                          !.dropped = run.dropped \/ ~Matches(Head(run.queue))]
    /\ UNCHANGED <<data, dirty, save_timer, file, nwrites, temp_path, Config,
                   urandom, now, last, fresh, burst, nops>>

\* self._manager.reload() in the observer thread
HandlerReloaded(r) ==
    /\ Commit(r, "on_modified", <<>>, None, FALSE)
    /\ run' = [run EXCEPT !.pc = "idle",
                          !.unwatched = (r.err # "none") /\ run.unwatched,
                          !.dropped = (r.err # "none") /\ run.dropped]
on_modified ==
    /\ run.pc = "reloading"
    /\ HandlerReloaded(reload(St))
    /\ UNCHANGED <<Config, urandom, now, fresh, burst, nops>>

InitWatch ==
    /\ auto_save = TRUE
    /\ debounce_ms = 0
    /\ pwd = NoPwd
    /\ way = "json"
    /\ urandom = 0
    /\ now = 0
    /\ \E d \in {D1("a", Int1), D1("a", D1("b", Int1))} :
         Start(__init__(NoFile, FALSE, TRUE, d, FALSE, NoPwd, "json").st)
    /\ last = NoCall
    /\ fresh = NoFresh
    /\ burst = NoBurst
    /\ run = NoWatch
    /\ nops = 0

NextWatch ==
    \/ EnableWatch \/ DisableWatch \/ ExternalRewrite \/ ExternalReplace
    \/ Dispatch \/ on_modified

SpecWatch == InitWatch /\ [][NextWatch]_vars

(***************************************************************************)
(* SpecRace: one thread calls update, set_data or del_key, which take no   *)
(* lock, while another runs save(), which holds Config._lock from the test *)
(* of the flag to its clearing.  run is [m, op, arg, s, overlap]: m is the *)
(* position of the mutating call (idle, marked after mark_dirty, applied   *)
(* after the change of the tree), op and arg what it was called with, s    *)
(* the position of save() (idle, locked after the test of the flag,        *)
(* written after _write_to_file), overlap whether the two calls have run   *)
(* at the same time.                                                       *)
(***************************************************************************)
NoRace == [m |-> "idle", op |-> "none", arg |-> None, s |-> "idle",
           overlap |-> FALSE]

RaceUpdates == {<<Item(<<"a">>, Int2)>>,
                <<Item(<<"a">>, D1("a", Int2))>>,
                <<Item(<<"a", "b">>, Int2)>>}
RaceDataSets == {Dict(EmptyMap), D1("b", D1("a", Int2))}
RacePaths == {<<"a">>, <<"a", "b">>}

\* update / set_data / del_key is called: self.mark_dirty()
MutBegin ==
    /\ nops < MaxCalls
    /\ run.m = "idle"
    /\ \/ \E u \in RaceUpdates : run' = [run EXCEPT !.m = "marked",
                 !.op = "update", !.arg = u, !.overlap = @ \/ run.s # "idle"]
       \/ \E d \in RaceDataSets : run' = [run EXCEPT !.m = "marked",
                 !.op = "set_data", !.arg = d, !.overlap = @ \/ run.s # "idle"]
       \/ \E p \in RacePaths : run' = [run EXCEPT !.m = "marked",
                 !.op = "del_key", !.arg = p, !.overlap = @ \/ run.s # "idle"]
    /\ Install(mark_dirty(St))
    /\ nops' = nops + 1
    /\ UNCHANGED <<Config, urandom, now, last, fresh, burst>>

\* The body of the call between mark_dirty and _auto_save_if_needed; over
\* tells that the call returns here (del_key on a path that is not there)
Body(st, err, over) == [st |-> st, err |-> err, over |-> over]
UpdateBody(r) == Body(r.st, r.err, r.err # "none")
SetDataBody(st, d) ==
    IF (DOMAIN d.m) \cap CONF_RESERVED # {} THEN Body(st, "ReservedKeyword", TRUE)
    ELSE Body([st EXCEPT !.data = ConfigNode(d)], "none", FALSE)
DelKeyBody(st, r) ==
    IF r.res = "early" THEN Body(st, "none", TRUE)
    ELSE Body([st EXCEPT !.data = [st.data EXCEPT !.m = r.v.m]], "none", FALSE)
MutBody(st, op, arg) ==
    CASE op = "update"   -> UpdateBody(UpdateLoop(st, arg))
      [] op = "set_data" -> SetDataBody(st, arg)
      [] OTHER           -> DelKeyBody(st, DelWalk(Dict(st.data.m), arg))

Applied(b) ==
    /\ Install(b.st)
    /\ IF b.over
       THEN /\ last' = Call(run.op, <<>>, None, FALSE, b.err)
            /\ run' = [run EXCEPT !.m = "idle"]
       ELSE /\ last' = last
            /\ run' = [run EXCEPT !.m = "applied"]
MutApply ==
    /\ run.m = "marked"
    /\ Applied(MutBody(St, run.op, run.arg))
    /\ UNCHANGED <<Config, urandom, now, fresh, burst, nops>>

\* self._auto_save_if_needed() and return; with auto_save it calls save(),
\* which waits for Config._lock
MutEnd ==
    /\ run.m = "applied"
    /\ auto_save => run.s = "idle"
    /\ Install(_auto_save_if_needed(St))
    /\ last' = Call(run.op, <<>>, None, FALSE, "none")
    /\ run' = [run EXCEPT !.m = "idle"]
    /\ UNCHANGED <<Config, urandom, now, fresh, burst, nops>>

\* save() by the other thread: the timer is cancelled, the lock taken,
\* `if not self._dirty: return`, the check of the file
RaceSaveEnter ==
    /\ nops < MaxCalls
    /\ run.s = "idle"
    /\ Install(CancelTimer(St))
    /\ IF ~dirty \/ PreCheckFails(St)
       THEN /\ last' = Call("save", <<>>, None, FALSE, "none")
            /\ run' = run
       ELSE /\ last' = last
            /\ run' = [run EXCEPT !.s = "locked",
                                  !.overlap = @ \/ run.m # "idle"]
    /\ nops' = nops + 1
    /\ UNCHANGED <<Config, urandom, now, fresh, burst>>

\* self._write_to_file(self._file, self._way)
RaceSaveWrite ==
    /\ run.s = "locked"
    /\ Install(_write_to_file(St))
    /\ run' = [run EXCEPT !.s = "written"]
    /\ UNCHANGED <<Config, urandom, now, last, fresh, burst, nops>>

\* self._dirty = False, and the lock is released
RaceSaveClear ==
    /\ run.s = "written"
    /\ Install([St EXCEPT !.dirty = FALSE])
    /\ last' = Call("save", <<>>, None, FALSE, "none")
    /\ run' = [run EXCEPT !.s = "idle"]
    /\ UNCHANGED <<Config, urandom, now, fresh, burst, nops>>

InitRace ==
    /\ auto_save \in BOOLEAN
    /\ debounce_ms = 0
    /\ pwd = NoPwd
    /\ way = "json"
    /\ urandom = 0
    /\ now = 0
    /\ \E d \in {Dict(EmptyMap), D1("a", Int1), D1("a", D1("b", Int1))} :
         Start(__init__(NoFile, FALSE, TRUE, d, FALSE, pwd, way).st)
    /\ last = NoCall
    /\ fresh = NoFresh
    /\ burst = NoBurst
    /\ nops = 0
    /\ run = NoRace

NextRace ==
    \/ MutBegin \/ MutApply \/ MutEnd
    \/ RaceSaveEnter \/ RaceSaveWrite \/ RaceSaveClear

SpecRace == InitRace /\ [][NextRace]_vars

(***************************************************************************)
(* SpecTimers: a manager with a debounce window and its threads, one step  *)
(* at a time: the thread that mutates, the thread of every timer that has  *)
(* fired, and a thread that calls save().  Time is left out: a timer that  *)
(* is armed fires at any later moment.  run is                             *)
(* [m, op, arg, pc, handle, next, overlap, cleaned, both, by]: m the       *)
(* position of the mutating call, op and arg what it was called with;      *)
(* pc[i] the state of timer i (none, armed, cancelled, fired, enter,       *)
(* locked, written, cleared, done) and pc[0] that of the thread calling    *)
(* save() (none when it is not inside); handle the timer self._save_timer  *)
(* refers to, 0 for None; next the number of the next timer; overlap       *)
(* whether a mutating call ran while a flush was running; cleaned whether  *)
(* clean_del was called; by the threads that have written the file since   *)
(* the tree was last changed, both whether a timer's flush and a save() by *)
(* the application have run at the same time since then.                   *)
(***************************************************************************)
MaxTimers == 3

Threads == 0 .. MaxTimers
Flushing == {"fired", "enter", "locked", "written", "cleared"}

NoTimers == [m |-> "idle", op |-> "none", arg |-> None,
             pc |-> [i \in Threads |-> "none"], handle |-> 0, next |-> 1,
             overlap |-> FALSE, cleaned |-> FALSE, both |-> FALSE, by |-> {}]

\* Thread.is_alive of timer h: started and its run() not over
is_alive(pc, h) == h # 0 /\ pc[h] \in {"armed"} \cup Flushing

\* Timer.cancel: a timer that has not fired will not
cancel(pc, h) == IF h # 0 /\ pc[h] = "armed" THEN [pc EXCEPT ![h] = "cancelled"]
                 ELSE pc

\* self._save_timer as the other specifications see it
Handle(r) == [alive |-> is_alive(r.pc, r.handle), due |-> 0]

\* _auto_save_if_needed with a window: the live timer is cancelled, a new
\* one made and started
Arm(r) ==
    [r EXCEPT !.pc = [cancel(r.pc, IF is_alive(r.pc, r.handle) THEN r.handle ELSE 0)
                         EXCEPT ![r.next] = "armed"],
              !.handle = r.next, !.next = r.next + 1]

\* The entry of save(): if self._save_timer and self._save_timer.is_alive():
\* cancel it and forget it
Forget(r) ==
    IF is_alive(r.pc, r.handle)
    THEN [r EXCEPT !.pc = cancel(r.pc, r.handle), !.handle = 0]
    ELSE r

\* A variant of the test below for a save() that takes no lock
NoLock == TRUE

\* Config._lock is free
LockFree == \A i \in Threads : run.pc[i] \notin {"locked", "written"}

\* The mutating calls of this specification and the timers each arms
MarksFirst == {"write", "update", "set_data", "del_key", "clean_del"}
Notifies == {"write", "attr_assign", "setitem"}
ArmsAtEnd == {"write", "update", "set_data", "del_key", "setitem"}
TimersOf(op) == (IF op \in Notifies THEN 1 ELSE 0) + (IF op \in ArmsAtEnd THEN 1 ELSE 0)
TimerOps == MarksFirst \cup Notifies

\* The tree after the call op(arg)
TreeOf(st, op, v) ==
    CASE op = "write"       -> write(st, <<"b">>, v, TRUE).st.data
      [] op = "update"      -> update(st, <<Item(<<"b">>, v)>>).st.data
      [] op = "set_data"    -> set_data(st, D1("b", v)).st.data
      [] op = "del_key"     -> del_key(st, <<"a">>).data
      [] op = "attr_assign" -> attr_assign(st, <<"b">>, v).st.data
      [] op = "setitem"     -> __setitem__(st, <<"b">>, v).st.data
      [] OTHER              -> clean_del(st).data

\* A step of some thread that leaves the run as r
TimerStep(r) ==
    /\ run' = r
    /\ save_timer' = Handle(r)

\* The call begins; write, update, set_data, del_key and clean_del start
\* with self.mark_dirty()
TimerMutBegin ==
    /\ nops < MaxOps
    /\ run.m = "idle"
    /\ \E op \in TimerOps :
         /\ run.next + TimersOf(op) - 1 <= MaxTimers
         /\ TimerStep([run EXCEPT !.m = "begun", !.op = op, !.arg = Int2,
                 !.overlap = @ \/ \E i \in Threads : run.pc[i] \in Flushing,
                 !.cleaned = @ \/ op = "clean_del"])
         /\ dirty' = (dirty \/ op \in MarksFirst)
    /\ nops' = nops + 1
    /\ UNCHANGED <<data, file, nwrites, temp_path, Config, urandom, now, last,
                   fresh, burst>>

\* The change of the tree.  Through a node it ends in notify_dirty, which
\* under Config._lock marks the manager and arms a timer; clean_del removes
\* the file and resets the tree under the lock, and returns
TimerMutChange ==
    /\ run.m = "begun"
    /\ run.op \in Notifies \cup {"clean_del"} => LockFree
    /\ data' = TreeOf(St, run.op, run.arg)
    /\ dirty' = (dirty \/ run.op \in Notifies)
    /\ file' = IF run.op = "clean_del" THEN NoFile ELSE file
    /\ TimerStep([(IF run.op \in Notifies THEN Arm(run) ELSE run)
                    EXCEPT !.m = IF run.op \in ArmsAtEnd THEN "changed" ELSE "idle",
                           !.by = {}, !.both = FALSE])
    /\ last' = IF run.op \in ArmsAtEnd THEN last
               ELSE Call(run.op, <<>>, run.arg, FALSE, "none")
    /\ UNCHANGED <<nwrites, temp_path, Config, urandom, now, fresh, burst, nops>>

\* The end of the call: self._auto_save_if_needed(), in __setitem__ after
\* self.mark_dirty()
TimerMutEnd ==
    /\ run.m = "changed"
    /\ dirty' = (dirty \/ run.op = "setitem")
    /\ TimerStep([Arm(run) EXCEPT !.m = "idle"])
    /\ last' = Call(run.op, <<>>, run.arg, FALSE, "none")
    /\ UNCHANGED <<data, file, nwrites, temp_path, Config, urandom, now, fresh,
                   burst, nops>>

\* The interval of timer i is over: its thread calls _flush_save
TimerFires ==
    \E i \in Threads \ {0} :
       /\ run.pc[i] = "armed"
       /\ TimerStep([run EXCEPT !.pc[i] = "fired",
                                !.overlap = @ \/ run.m # "idle",
                                !.both = @ \/ run.pc[0] \in Flushing])
       /\ UNCHANGED <<data, dirty, file, nwrites, temp_path, Config, urandom,
                      now, last, fresh, burst, nops>>

\* The application calls save()
TimerSaveCall ==
    /\ nops < MaxOps
    /\ run.pc[0] = "none"
    /\ TimerStep([run EXCEPT !.pc[0] = "fired",
                 !.overlap = @ \/ run.m # "idle",
                 !.both = @ \/ \E i \in Threads \ {0} : run.pc[i] \in Flushing])
    /\ nops' = nops + 1
    /\ UNCHANGED <<data, dirty, file, nwrites, temp_path, Config, urandom,
                   now, last, fresh, burst>>

\* save(), before the lock: the pending timer is cancelled and forgotten
FlushEnter ==
    \E i \in Threads :
       /\ run.pc[i] = "fired"
       /\ TimerStep([Forget(run) EXCEPT !.pc[i] = "enter"])
       /\ UNCHANGED <<data, dirty, file, nwrites, temp_path, Config, urandom,
                      now, last, fresh, burst, nops>>

\* with self._lock: if not self._dirty: return
FlushLock ==
    \E i \in Threads :
       /\ run.pc[i] = "enter"
       /\ LockFree
       /\ TimerStep([run EXCEPT !.pc[i] = IF dirty THEN "locked" ELSE "cleared"])
       /\ UNCHANGED <<data, dirty, file, nwrites, temp_path, Config, urandom,
                      now, last, fresh, burst, nops>>

\* self._write_to_file(self._file, self._way)
FlushWrite ==
    \E i \in Threads :
       /\ run.pc[i] = "locked"
       /\ file' = FileBytes(St)
       /\ nwrites' = nwrites + 1
       /\ TimerStep([run EXCEPT !.pc[i] = "written", !.by = @ \cup {i}])
       /\ UNCHANGED <<data, dirty, temp_path, Config, urandom, now, last,
                      fresh, burst, nops>>

\* self._dirty = False, and the lock is released
FlushClear ==
    \E i \in Threads :
       /\ run.pc[i] = "written"
       /\ dirty' = FALSE
       /\ TimerStep([run EXCEPT !.pc[i] = "cleared"])
       /\ UNCHANGED <<data, file, nwrites, temp_path, Config, urandom, now,
                      last, fresh, burst, nops>>

\* save() returns: to the application, or to _flush_save, whose finally
\* sets self._save_timer = None
FlushReturn ==
    \E i \in Threads :
       /\ run.pc[i] = "cleared"
       /\ TimerStep(IF i = 0 THEN [run EXCEPT !.pc[0] = "none"]
                    ELSE [run EXCEPT !.pc[i] = "done", !.handle = 0])
       /\ last' = Call(IF i = 0 THEN "save" ELSE "timer", <<>>, None, FALSE, "none")
       /\ UNCHANGED <<data, dirty, file, nwrites, temp_path, Config, urandom,
                      now, fresh, burst, nops>>

InitTimers ==
    /\ auto_save = TRUE
    /\ debounce_ms = Window
    /\ pwd = NoPwd
    /\ way = "json"
    /\ urandom = 0
    /\ now = 0
    /\ \E d \in {D1("a", Int1)} :
         Start(__init__(NoFile, FALSE, TRUE, d, FALSE, pwd, way).st)
    /\ last = NoCall
    /\ fresh = NoFresh
    /\ burst = NoBurst
    /\ nops = 0
    /\ run = NoTimers

NextTimers ==
    \/ TimerMutBegin \/ TimerMutChange \/ TimerMutEnd
    \/ TimerFires \/ TimerSaveCall
    \/ FlushEnter \/ FlushLock \/ FlushWrite \/ FlushClear \/ FlushReturn

SpecTimers == InitTimers /\ [][NextTimers]_vars

(***************************************************************************)
(* SpecOver: a manager built with replace=False over a file that exists,   *)
(* with and without initial data; other programs rewrite the file, and the *)
(* manager is saved, left as a context manager, or flushed at the exit of  *)
(* the process.  nops counts the mutating calls.  run is [pc, given]:      *)
(* whether data was handed to the constructor.                             *)
(***************************************************************************)
NoOver == [pc |-> "idle", given |-> FALSE]

\* The files the manager is built over
OverFiles == ForeignFiles \cup {WrittenBy(q, D1("a", Int1)) : q \in {NoPwd, "P"}}

\* cfg.save() before or after the mutating calls
SaveOver ==
    /\ last.op # "save"
    /\ Commit(Ok(save(St)), "save", <<>>, None, FALSE)
    /\ UNCHANGED <<nops, Rest>>

\* atexit.register(self._flush_save): the interpreter exits
AtExit ==
    /\ last.op # "atexit"
    /\ Commit(Ok(_flush_save(St)), "atexit", <<>>, None, FALSE)
    /\ UNCHANGED <<nops, Rest>>

\* Config(data, file, replace=False, ...) has returned a manager
BuiltOver(r, given) ==
    /\ r.err = "none"
    /\ Start(r.st)
    /\ run = [NoOver EXCEPT !.given = given]

InitOver ==
    /\ auto_save \in BOOLEAN
    /\ debounce_ms = 0
    /\ pwd \in {NoPwd, "P"}
    /\ way = "json"
    /\ urandom = 0
    /\ now = 0
    /\ \E f0 \in OverFiles, given \in BOOLEAN :
         BuiltOver(__init__(f0, FALSE, given,
                            IF given THEN D1("b", Int2) ELSE Dict(EmptyMap),
                            FALSE, pwd, way), given)
    /\ last = NoCall
    /\ fresh = NoFresh
    /\ burst = NoBurst
    /\ nops = 0

NextOver == WriteBefore \/ SaveOver \/ Exit \/ AtExit \/ ExternalEdit

SpecOver == InitOver /\ [][NextOver]_vars

(***************************************************************************)
(* SpecMerge: update(partial) with a mapping under a key of the tree that  *)
(* holds a mapping, which is as seeded or loaded, was made by write, or    *)
(* was reached by attribute or subscript access before.                    *)
(***************************************************************************)
MergeSeeds == {D1("a", D1("b", Int1)),
               D2("a", D2("a", Int1, "b", D1("a", Int1)), "b", Int2)}

\* Arguments of update whose keys have no dot
MergeUpdates == {<<Item(<<"a">>, D1("a", Int2))>>,
                 <<Item(<<"a">>, D1("b", D1("b", Int2))), Item(<<"b">>, Int1)>>}

\* The dict the items were taken from
AsDict(items) ==
    Dict([k \in {items[i].keys[1] : i \in DOMAIN items} |->
            items[CHOOSE i \in DOMAIN items : items[i].keys[1] = k].val])

\* cfg.update(partial)
MergeUpdate ==
    /\ last.op # "update"
    /\ \E u \in MergeUpdates :
         Commit(update(St, u), "update", <<>>, AsDict(u), FALSE)
    /\ UNCHANGED <<nops, Rest>>

InitMerge ==
    /\ auto_save \in BOOLEAN
    /\ debounce_ms = 0
    /\ pwd = NoPwd
    /\ way = "json"
    /\ urandom = 0
    /\ now = 0
    /\ \E d \in MergeSeeds :
         Start(__init__(NoFile, FALSE, TRUE, d, FALSE, NoPwd, "json").st)
    /\ last = NoCall
    /\ fresh = NoFresh
    /\ burst = NoBurst
    /\ run = NoRet
    /\ nops = 0

NextMerge == WriteBefore \/ GetAttr \/ SubscriptRead \/ Reload \/ MergeUpdate

SpecMerge == InitMerge /\ [][NextMerge]_vars

(***************************************************************************)
(* SpecGuard: save() of a process_safe manager one system call at a time,  *)
(* as in SpecPublish, beside a second process_safe writer on the same      *)
(* path.  run is NoSave with one more field: moved is the step save() was  *)
(* at when the other writer last replaced the target between the check     *)
(* save() makes on the file and its os.replace, "none" when it never did,  *)
(* and other is the file it put there then.                                *)
(***************************************************************************)
NoGuard == [pc |-> "idle", safe |-> TRUE, lock |-> FALSE, tmp |-> NoFile,
            snap |-> NoFile, pub |-> NoFile, outcome |-> "none",
            moved |-> "none", other |-> NoFile]

\* The steps of save() after the check on the file and up to os.replace
Checked == {"ensure", "lock", "open", "write", "replace"}

\* The steps of _write_to_file inside "with self._process_lock(shared=False)"
Exclusive == {"open", "write", "replace"}

\* The steps at which this manager holds the exclusive lock on "<file>.lock"
HoldsExclusive(safe, pc) == safe /\ pc \in Exclusive

\* What the other writer puts at the target
OtherFiles == {WrittenBy(q, D1("a", Int2)) : q \in {NoPwd, "Q"}}

\* save() of a process_safe manager in another process: it takes the
\* exclusive lock, which it gets only while this manager does not hold it,
\* replaces the target, releases the lock and removes the lock file
OtherSave ==
    /\ ~HoldsExclusive(run.safe, run.pc)
    /\ \E f \in OtherFiles \ {file} :
         /\ file' = f
         /\ run' = [run EXCEPT
                      !.lock = _cleanup_lock_file(TRUE, run.lock),
                      !.moved = IF run.pc \in Checked THEN run.pc
                                ELSE run.moved,
                      !.other = IF run.pc \in Checked THEN f
                                ELSE run.other]
    /\ UNCHANGED <<data, dirty, save_timer, nwrites, temp_path, Config,
                   urandom, now, last, fresh, burst, nops>>

InitGuard ==
    /\ auto_save = FALSE
    /\ debounce_ms = 0
    /\ pwd \in {NoPwd, "P"}
    /\ way = "json"
    /\ urandom = 0
    /\ now = 0
    /\ \/ \E d \in {Dict(EmptyMap), D1("a", Int1)} :
            /\ Start(NewManager(NoFile, FALSE, TRUE, d, pwd, way))
            /\ run = [NoGuard EXCEPT !.pc = "ensure"]
       \/ \E f0 \in FirstFiles \ {NoFile} :
            /\ __init__(f0, FALSE, FALSE, Dict(EmptyMap), FALSE, pwd, way).err
                 = "none"
            /\ Start(__init__(f0, FALSE, FALSE, Dict(EmptyMap), FALSE, pwd,
                              way).st)
            /\ run = [NoGuard EXCEPT !.lock = TRUE, !.pub = f0]
    /\ last = NoCall
    /\ fresh = NoFresh
    /\ burst = NoBurst
    /\ nops = 0

NextGuard ==
    \/ SaveBegin \/ SaveEnsure \/ SaveLock \/ SaveOpen \/ SaveWrite
    \/ SaveReplace \/ SaveDone \/ SaveRaise
    \/ Change \/ OtherSave

SpecGuard == InitGuard /\ [][NextGuard]_vars

(***************************************************************************)
(* SpecOrder: reload(), save() and to_file() called by two threads of one  *)
(* process, one lock operation at a time.  self._lock is the RLock of the  *)
(* manager, the file lock is portalocker.Lock on "<file>.lock".  run is    *)
(* [safe, pc, op, rlock, flock, ext]: pc and op give each caller's step    *)
(* and call, rlock the thread that owns self._lock (0 for none), flock the *)
(* mode in which each caller holds the file lock, ext whether another      *)
(* process holds it exclusively.                                           *)
(***************************************************************************)
Callers == {1, 2}
NoOrder == [safe |-> TRUE, pc |-> [t \in Callers |-> "idle"],
            op |-> [t \in Callers |-> "none"], rlock |-> 0,
            flock |-> [t \in Callers |-> "none"], ext |-> FALSE]

\* The calls that take the file lock: reload() (through _load, as the
\* constructor over an existing file does), save() and to_file()
LockingOps == {"reload", "save", "to_file"}

\* A variant of the order below in which to_file() takes the file lock
\* before self._lock
FileLockFirstOnExport(op) ==
    IF op = "to_file" THEN <<"flock", "rlock">> ELSE <<"rlock", "flock">>

\* The order in which a call enters the two locks: "with self._lock,
\* self._process_lock(shared=True)" in _load; "with self._lock:" in save()
\* and to_file(), which call _write_to_file and its "with
\* self._process_lock(shared=False)" inside it.  A with statement leaves
\* them in the opposite order.
Order(op) == <<"rlock", "flock">>

\* _process_lock(shared=...): LOCK_SH for _load, LOCK_EX for _write_to_file
Mode(op) == IF op = "reload" THEN "sh" ELSE "ex"

\* The lock a caller is about to enter or to leave
Pending(r, t) ==
    IF r.pc[t] \in {"enter1", "leave1"} THEN Order(r.op[t])[1]
    ELSE Order(r.op[t])[2]

\* Whether the lock can be entered now: the RLock when no other thread
\* owns it; the file lock, when process_safe, in a mode that agrees with
\* the holders there are (flock on another descriptor of the same file
\* conflicts within a process too)
CanEnter(r, t) ==
    IF Pending(r, t) = "rlock" THEN r.rlock \in {0, t}
    ELSE IF ~r.safe THEN TRUE
    ELSE IF Mode(r.op[t]) = "sh"
         THEN ~r.ext /\ \A u \in Callers \ {t} : r.flock[u] # "ex"
         ELSE ~r.ext /\ \A u \in Callers \ {t} : r.flock[u] = "none"

\* The locks after the caller has entered (how = the mode) or left (how =
\* "none") the one pending
Locked(r, t, how) ==
    IF Pending(r, t) = "rlock"
    THEN [r EXCEPT !.rlock = IF how = "none" THEN 0 ELSE t]
    ELSE IF ~r.safe THEN r
    ELSE [r EXCEPT !.flock[t] = how]

\* save() returns under self._lock without writing: the manager is clean,
\* or the check on the file fails
SkipsWrite(st) == ~st.dirty \/ PreCheckFails(st)

\* cfg.reload(), cfg.save() or cfg.to_file() is called by a thread
OrderBegin ==
    /\ nops < MaxCalls
    /\ \E t \in Callers, o \in LockingOps :
         /\ run.pc[t] = "idle"
         /\ run' = [run EXCEPT !.pc[t] = "enter1", !.op[t] = o]
    /\ nops' = nops + 1
    /\ UNCHANGED <<data, dirty, save_timer, file, nwrites, temp_path, Config,
                   urandom, now, last, fresh, burst>>

\* The step after a lock is entered
AfterEnter(r, t, st) ==
    IF r.pc[t] = "enter2" THEN "body"
    ELSE IF r.op[t] = "save" /\ Pending(r, t) = "rlock" /\ SkipsWrite(st)
    THEN "leave1"
    ELSE "enter2"

\* A caller enters the lock it is waiting for
OrderEnter ==
    /\ \E t \in Callers :
         /\ run.pc[t] \in {"enter1", "enter2"}
         /\ CanEnter(run, t)
         /\ run' = [Locked(run, t, Mode(run.op[t])) EXCEPT
                      !.pc[t] = AfterEnter(run, t, St)]
    /\ UNCHANGED <<data, dirty, save_timer, file, nwrites, temp_path, Config,
                   urandom, now, last, fresh, burst, nops>>

\* What the call does inside both locks: _load and the clearing of the
\* flag; _write_to_file and the clearing of the flag; _write_to_file alone
OrderEffect(st, op) ==
    IF op = "reload" THEN reload(st)
    ELSE IF op = "save" THEN Ok(SaveLocked(st))
    ELSE Ok(_write_to_file(st))
OrderBody ==
    /\ \E t \in Callers :
         /\ run.pc[t] = "body"
         /\ Commit(OrderEffect(St, run.op[t]), run.op[t], <<>>, None, FALSE)
         /\ run' = [run EXCEPT !.pc[t] = "leave2"]
    /\ UNCHANGED <<Config, urandom, now, fresh, burst, nops>>

\* A caller leaves the lock it entered last, then the one it entered first
OrderLeave ==
    /\ \E t \in Callers :
         /\ run.pc[t] \in {"leave1", "leave2"}
         /\ run' = [Locked(run, t, "none") EXCEPT
                      !.pc[t] = IF run.pc[t] = "leave2" THEN "leave1"
                                ELSE "idle"]
    /\ UNCHANGED <<data, dirty, save_timer, file, nwrites, temp_path, Config,
                   urandom, now, last, fresh, burst, nops>>

\* Another process takes the file lock exclusively, or gives it back
OtherLock ==
    /\ run.safe
    /\ ~run.ext
    /\ \A t \in Callers : run.flock[t] = "none"
    /\ run' = [run EXCEPT !.ext = TRUE]
    /\ UNCHANGED <<data, dirty, save_timer, file, nwrites, temp_path, Config,
                   urandom, now, last, fresh, burst, nops>>
OtherUnlock ==
    /\ run.ext
    /\ run' = [run EXCEPT !.ext = FALSE]
    /\ UNCHANGED <<data, dirty, save_timer, file, nwrites, temp_path, Config,
                   urandom, now, last, fresh, burst, nops>>

InitOrder ==
    /\ auto_save = FALSE
    /\ debounce_ms = 0
    /\ pwd = NoPwd
    /\ way = "json"
    /\ urandom = 0
    /\ now = 0
    /\ Start(__init__(NoFile, FALSE, TRUE, D1("a", Int1), FALSE, pwd, way).st)
    /\ \E safe \in BOOLEAN : run = [NoOrder EXCEPT !.safe = safe]
    /\ last = NoCall
    /\ fresh = NoFresh
    /\ burst = NoBurst
    /\ nops = 0

NextOrder ==
    \/ OrderBegin \/ OrderEnter \/ OrderBody \/ OrderLeave
    \/ OtherLock \/ OtherUnlock \/ Change

SpecOrder == InitOrder /\ [][NextOrder]_vars

(***************************************************************************)
(* SpecGone: clean_del() on a manager with a debounce window, among writes *)
(* that arm the timer, the timer's flush and the flush registered for the  *)
(* exit of the interpreter.                                                *)
(***************************************************************************)
\* cfg.clean_del(): the flag is set, the file removed and the tree emptied;
\* the timer is neither cancelled nor armed
CleanTimed ==
    /\ nops < MaxCalls
    /\ Commit(Ok(clean_del(St)), "clean_del", <<>>, None, FALSE)
    /\ nops' = nops + 1
    /\ UNCHANGED Rest

NextGone ==
    \/ TimedWrite \/ TimedSave \/ Tick \/ TimerFire \/ CleanTimed \/ AtExit

SpecGone == InitDebounce /\ [][NextGone]_vars

(***************************************************************************)
(* Claims on the tree (checked under Spec).                                *)
(***************************************************************************)
\* What read(p, default) gives when it finds nothing, for a default that is
\* no value of the tree
Missing == Scalar("missing", "")
Found(root, keys) == Read(root, keys, Missing) # Missing

\* C1: when write(p, v, overwrite_mode) has returned without error, read(p)
\* returns v, whatever the segments of p are (segments that begin with '_'
\* and names of ConfigNode members included).
C1_WriteThenRead ==
    (last.op = "write" /\ last.err = "none")
        => Plain(Read(data, last.path, None)) = Plain(last.val)

\* C1, the case that fails: a write whose last segment begins with '_'
\* returns without error
C1_UnderscoreWritten ==
    /\ last.op = "write" /\ last.err = "none"
    /\ StartsWithUnderscore(Last(last.path))
    /\ ~IsNone(last.val)

\* C3: with auto_save on and no debounce, every mutating call that returns
\* normally leaves the manager clean and the file equal to the
\* serialization of the flattened tree.
MutatingOps == {"write", "update", "set_data", "del_key", "attr_assign",
                "attr_delete", "setitem"}
C3_SavedOnReturn ==
    (auto_save /\ debounce_ms = 0 /\ last.op \in MutatingOps /\ last.err = "none")
        => (~dirty /\ file = FileBytes(St))

\* C3, the case that fails: del_key returned from its loop over keys[:-1]
C3_DelKeyEarly ==
    /\ last.op = "del_key"
    /\ DelWalk(Dict(last.pre.data.m), last.path).res = "early"

\* C4: if read(p) finds a value, then after del_key(p) the path p is absent:
\* read(p) gives the default and p is no path of the flattened snapshot.
C4_DeleteRemoves ==
    (last.op = "del_key" /\ Found(last.pre.data, last.path))
        => (~Found(data, last.path) /\ ~HasPath(Expand(data), last.path))

\* C4, the case that fails: the path leads through a ConfigNode
C4_DeleteThroughNode ==
    /\ last.op = "del_key"
    /\ Found(last.pre.data, last.path)
    /\ \E i \in 1..(Len(last.path) - 1) :
          /\ HasPath(last.pre.data, Prefix(last.path, i))
          /\ GetAt(last.pre.data, Prefix(last.path, i)).kind = "n"

\* C5: write(p, v, overwrite_mode=false) fails with PathConflict exactly when
\* an intermediate segment of p holds a scalar or the final key exists with
\* the other class (mapping versus scalar); with overwrite_mode=true the
\* write goes through, and every intermediate segment is a mapping after it.
\* Stated for paths of ordinary keys.
ScalarOnWay(root, keys) ==
    \E i \in 1..(Len(keys) - 1) :
        /\ HasPath(root, Prefix(keys, i))
        /\ ~IsMapping(GetAt(root, Prefix(keys, i)))
FinalClash(root, keys, value) ==
    /\ HasPath(root, keys)
    /\ IsMapping(GetAt(root, keys)) # IsMapping(value)
OrdinaryPath(keys) == \A i \in 1..Len(keys) : keys[i] \in PlainKeys
C5_PathConflict ==
    (last.op = "write" /\ OrdinaryPath(last.path))
        => /\ ~last.ow =>
                ((last.err = "PathConflict")
                    <=> (\/ ScalarOnWay(last.pre.data, last.path)
                         \/ FinalClash(last.pre.data, last.path, last.val)))
           /\ last.ow =>
                /\ last.err = "none"
                /\ \A i \in 1..(Len(last.path) - 1) :
                      /\ HasPath(data, Prefix(last.path, i))
                      /\ IsMapping(GetAt(data, Prefix(last.path, i)))

\* C5, the case that fails: an intermediate segment holds None and
\* overwrite_mode is false
C5_NoneOnWay ==
    /\ last.op = "write" /\ ~last.ow /\ OrdinaryPath(last.path)
    /\ \E i \in 1..(Len(last.path) - 1) :
          /\ HasPath(last.pre.data, Prefix(last.path, i))
          /\ IsNone(GetAt(last.pre.data, Prefix(last.path, i)))


(***************************************************************************)
(* Claims on the handlers (checked under SpecCodec).                       *)
(***************************************************************************)
\* C2: for each format, after save() has succeeded, a manager built on the
\* same path with the same format has a flattened snapshot equal to that of
\* the manager that saved (trees of strings, numbers and booleans, scalars
\* at the top level included).
C2_RoundTrip ==
    (fresh.tried /\ fresh.after = "save" /\ ~fresh.saver_dirty /\ fresh.p = NoPwd)
        => (fresh.made /\ Plain(Expand(fresh.data)) = fresh.saver)

\* C2, the case that fails: the saved tree holds a number and the format is
\* ini or xml
C2_NumberInIniOrXml ==
    /\ fresh.tried /\ fresh.after = "save" /\ ~fresh.saver_dirty /\ fresh.p = NoPwd
    /\ way \in {"ini", "xml"}
    /\ \E k \in DOMAIN fresh.saver.m : fresh.saver.m[k] = Int1

(***************************************************************************)
(* Claims on encryption (checked under SpecCrypto).                        *)
(***************************************************************************)
\* The file is as a manager with a password saved it / was changed since
Untouched(f) ==
    f.kind = "enc" /\ f.intact /\ f.key = _cached_kdf(f.key[1], f.salt)
Tampered(f) == f.kind = "enc" /\ ~Untouched(f)

\* C6: over a file saved by a manager with password P, the constructor
\* with P returns a manager that holds the saved tree, with another
\* password it fails with IntegrityFailure and without password with
\* MissingPassword; in both failing cases no manager is returned.
C6_Passwords ==
    (fresh.tried /\ Untouched(fresh.src))
        => /\ fresh.p = fresh.src.key[1]
                => (fresh.made /\ Plain(Expand(fresh.data)) = Plain(fresh.src.doc))
           /\ fresh.p \notin {NoPwd, fresh.src.key[1]}
                => (~fresh.made /\ fresh.err = "IntegrityFailure")
           /\ fresh.p = NoPwd
                => (~fresh.made /\ fresh.err = "MissingPassword")

\* C6 happens: the constructor was given another password than the file's
C6_WrongPasswordTried ==
    /\ fresh.tried /\ Untouched(fresh.src)
    /\ fresh.p \notin {NoPwd, fresh.src.key[1]}
    /\ fresh.err = "IntegrityFailure"

\* C7: when the target starts with the header and does not decrypt under
\* the manager's password (other password, no password, changed content),
\* save() writes nothing: the target is unchanged, no temporary file is
\* left and the dirty flag stays as it was.
C7_SaveRefused ==
    (last.op = "save" /\ last.pre.file.kind = "enc"
                      /\ DecryptFails(last.pre.file, pwd))
        => /\ file = last.pre.file
           /\ nwrites = last.pre.nwrites
           /\ ~temp_path
           /\ last.pre.dirty => dirty

\* C7 happens: a dirty manager with a password called save() over a file
\* whose content was changed
C7_DirtySaveOverTampered ==
    /\ last.op = "save" /\ last.pre.dirty /\ dirty
    /\ pwd # NoPwd
    /\ Tampered(last.pre.file)

\* C8: a load or reload() by a manager with a password of a file whose salt
\* or token was changed fails with IntegrityFailure; reload() leaves the
\* tree and the dirty flag as they were, the constructor returns no manager.
C8_TamperFailsClosed ==
    /\ (last.op = "reload" /\ pwd # NoPwd /\ Tampered(last.pre.file))
          => /\ last.err = "IntegrityFailure"
             /\ data = last.pre.data
             /\ dirty = last.pre.dirty
    /\ (fresh.tried /\ fresh.p # NoPwd /\ Tampered(fresh.src))
          => (~fresh.made /\ fresh.err = "IntegrityFailure")

\* C8 happens: reload() of a file whose token was changed, by a dirty
\* manager that holds the password the file was saved with
C8_ReloadOfTampered ==
    /\ last.op = "reload" /\ last.err = "IntegrityFailure"
    /\ ~last.pre.file.intact
    /\ pwd = last.pre.file.key[1]
    /\ dirty

(***************************************************************************)
(* Claims on the debounce timer (checked under SpecDebounce).              *)
(***************************************************************************)
\* The last call was a mutating call that returned normally and changed the
\* flattened tree
Mutated ==
    /\ last.op \in MutatingOps /\ last.err = "none"
    /\ Plain(Expand(data)) # Plain(Expand(last.pre.data))

C11_ReloadDiscards ==
    /\ (last.op = "reload" /\ last.err = "none")
          => /\ ~dirty
             /\ Plain(Expand(data)) = Plain(_load(file, pwd, way).data)
    /\ run.reloaded => (~dirty /\ nwrites = run.w)

\* C11 happens: reload() was called with unsaved changes and a timer
\* pending, and the timer has fired since
C11_TimerAfterReload ==
    /\ last.op = "timer"
    /\ run.reloaded
    /\ run.pre.dirty /\ run.pre.timer.alive
    /\ Plain(Expand(run.pre.data)) # Plain(Expand(data))

(***************************************************************************)
(* Claims on the constructor (checked under SpecInit).                     *)
(***************************************************************************)
\* The constructor took the branch that seeds and saves
Seeding == fresh.src.kind = "none" \/ run.replace
\* The manager the constructor seeds, before its save
Seeded == NewManager(fresh.src, FALSE, TRUE, run.d, fresh.p, way)

\* C12: when the constructor returns and the file did not exist or replace
\* was true, the file exists and holds the serialization of the initial
\* data (of the empty tree when none was given), and the manager is clean.
C12_SeedAndSave ==
    (last.op = "construct" /\ fresh.made /\ Seeding)
        => /\ file.kind # "none"
           /\ file = FileBytes(Seeded)
           /\ ~fresh.dirty

\* C12, the case that fails: replace=True over an encrypted file that does
\* not decrypt under the password given
C12_ReplaceOverForeign ==
    /\ last.op = "construct" /\ fresh.made
    /\ run.replace
    /\ fresh.src.kind = "enc" /\ DecryptFails(fresh.src, fresh.p)

\* C13: when the load or the initial save of the constructor does not
\* succeed, the constructor raises: it returns no manager.
C13_ConstructorRaises ==
    (last.op = "construct"
        /\ \/ ~Seeding /\ _load(fresh.src, fresh.p, way).err # "none"
           \/ Seeding /\ PreCheckFails(Seeded))
        => (~fresh.made /\ fresh.err # "none")

\* C13, the case that fails: the initial save was refused by the check
\* before the write and the constructor returned a manager
C13_SaveRefusedSilently ==
    /\ last.op = "construct" /\ Seeding
    /\ PreCheckFails(Seeded)
    /\ fresh.made /\ fresh.dirty
    /\ file = fresh.src

(***************************************************************************)
(* Claims on the process lock (checked under SpecLock).                    *)
(***************************************************************************)
\* C14: with process_safe in every process, no two processes are inside
\* the exclusive section at once, and none is inside the shared section
\* while another is inside the exclusive one.
C14_MutualExclusion ==
    \A p \in Procs : \A q \in Procs \ {p} :
        (Inside(p) /\ Inside(q)) => (Shared(p) /\ Shared(q))

\* C14, the case that fails: the lock file was removed, or removed and
\* made anew, while a process holds a descriptor of the old one
C14_LockFileReplaced ==
    \E p \in Procs :
        /\ run.proc[p].pc \in {"opened", "inside"}
        /\ run.proc[p].ino # run.lockpath

(***************************************************************************)
(* Claims on the manager's lock (checked under SpecThreads).               *)
(***************************************************************************)
\* The flattened tree when the update in progress was called, and the one
\* the whole update gives from there
BeforeUpdate == Plain(Expand(run.pre.data))
AfterUpdate == Plain(Expand(UpdateLoop(run.pre, run.items).st.data))

\* C15: what a save writes never holds a partially applied mutation: a
\* save that runs while another thread is inside update writes the tree
\* as it was before that update or as the whole update leaves it.
C15_NoPartialSnapshot ==
    (last.op = "save" /\ nwrites = last.pre.nwrites + 1 /\ run.pc = "update")
        => file.doc \in {BeforeUpdate, AfterUpdate}

\* C15, the case that fails: save() wrote between two rounds of the loop
\* of update
C15_SaveInsideUpdate ==
    /\ last.op = "save" /\ nwrites = last.pre.nwrites + 1
    /\ run.pc = "update"
    /\ run.done \in 1..(Len(run.items) - 1)

(***************************************************************************)
(* Claims on the files of a save (checked under SpecPublish).              *)
(***************************************************************************)
\* C16: at every instant the target path holds no file or the complete
\* bytes that an os.replace put there (or that stood there before the
\* manager was built), never an empty or partly written file, the first
\* save to a path included.
C16_AtomicPublish ==
    file.kind # "none" => (file.kind # "empty" /\ file = run.pub)

\* C16, the case that fails: during the first save to a path the target
\* is an empty file
C16_EmptyTarget ==
    /\ run.pc \in {"lock", "open", "write", "replace"}
    /\ file.kind = "empty"
    /\ nwrites = 0

\* C17: once a call of save() has returned, whatever its outcome, no file
\* stands at "<file>.tmp", and if it returned without error no file
\* stands at "<file>.lock", with process_safe on or off.
C17_NoArtifacts ==
    (run.pc = "idle" /\ last.op = "save")
        => /\ ~temp_path
           /\ run.outcome \in {"wrote", "noop"} => ~run.lock

\* C17, the part that holds: a save() that wrote the file leaves neither
\* file, and a save() that failed leaves no "<file>.tmp"
C17_AfterWritingSave ==
    (run.pc = "idle" /\ last.op = "save")
        => /\ ~temp_path
           /\ run.outcome = "wrote" => ~run.lock

\* C17, the case that fails: save() on a clean manager returns at once and
\* the lock file that the load made is still there
C17_LockAfterNoopSave ==
    /\ run.pc = "idle" /\ last.op = "save"
    /\ run.outcome = "noop" /\ run.safe /\ run.lock

(***************************************************************************)
(* Claims on the nodes (checked under SpecNode).                           *)
(***************************************************************************)
NodeIdioms == {"attr_assign", "attr_delete", "setitem", "pop", "clear"}
TreeChanged == Plain(Expand(data)) # Plain(Expand(last.pre.data))

\* C18: a set or a delete on a node, through an attribute, a subscript or
\* pop / clear, that returned and changed the tree has marked the manager
\* dirty, also when it left the root mapping empty.
C18_NodeChangeMarksDirty ==
    (last.op \in NodeIdioms /\ last.err = "none" /\ TreeChanged) => dirty

\* C18 for the idioms that go through Config.__setattr__, __delattr__ and
\* __setitem__: these hold
C18_ManagerIdiomsMarkDirty ==
    (last.op \in NodeIdioms \ {"pop", "clear"} /\ last.err = "none"
        /\ TreeChanged) => dirty

\* C18, the case that fails: the last key of the root is popped or cleared
\* away and the manager is still clean
C18_RootEmptiedClean ==
    /\ last.op \in {"pop", "clear"} /\ last.err = "none"
    /\ last.pre.data.m # EmptyMap /\ data.m = EmptyMap
    /\ ~last.pre.dirty /\ ~dirty

(***************************************************************************)
(* Claims on del_key (checked under SpecDelete).                           *)
(***************************************************************************)
\* The flattened tree before and after the last call
TreeBefore == Plain(Expand(last.pre.data))
TreeAfter == Plain(Expand(data))

\* The flattened tree snap without the path keys and without every
\* ancestor mapping of it that this leaves empty, innermost first up to
\* the first that is not empty
RECURSIVE Pruned(_, _)
PrunedUp(snap, k, below) ==
    IF below.m = EmptyMap THEN [snap EXCEPT !.m = Del(snap.m, k)]
    ELSE [snap EXCEPT !.m = Put(snap.m, k, below)]
Pruned(snap, keys) ==
    IF Len(keys) = 1 THEN [snap EXCEPT !.m = Del(snap.m, Head(keys))]
    ELSE PrunedUp(snap, Head(keys), Pruned(snap.m[Head(keys)], Tail(keys)))

\* C19: del_key(p) on a path of the tree removes p and each ancestor
\* mapping that this leaves empty, innermost first and up to the first
\* non-empty one; every other key keeps its value.
C19_DeletePrunes ==
    (last.op = "del_key" /\ HasPath(TreeBefore, last.path))
        => TreeAfter = Pruned(TreeBefore, last.path)

\* C19 where the walk of del_key meets dicts only: this holds
C19_PrunesOverDicts ==
    (last.op = "del_key" /\ HasPath(TreeBefore, last.path)
        /\ DelWalk(Dict(last.pre.data.m), last.path).res \in {"deleted", "stopped"})
        => TreeAfter = Pruned(TreeBefore, last.path)

\* C19, the case that fails: the path exists and del_key leaves the tree
\* as it was
C19_NothingRemoved ==
    /\ last.op = "del_key"
    /\ HasPath(TreeBefore, last.path)
    /\ TreeAfter = TreeBefore

\* C19, the case that holds: an ancestor is pruned, a sibling higher up
\* stops the pruning and an empty mapping elsewhere stays
C19_PrunedAndStopped ==
    /\ last.op = "del_key" /\ Len(last.path) = 3
    /\ DelWalk(Dict(last.pre.data.m), last.path).res = "stopped"
    /\ ~HasPath(TreeAfter, Prefix(last.path, 2))
    /\ HasPath(TreeAfter, Prefix(last.path, 1))
    /\ \E k \in DOMAIN TreeAfter.m : TreeAfter.m[k] = Dict(EmptyMap)

\* C20: del_key(p) on a path that is none of the tree fails with NotFound
\* and leaves the flattened tree, the dirty flag and the file as they were.
C20_AbsentRaises ==
    (last.op = "del_key" /\ ~HasPath(TreeBefore, last.path))
        => /\ last.err = "NotFound"
           /\ TreeAfter = TreeBefore
           /\ dirty = last.pre.dirty
           /\ file = last.pre.file

\* C20, the case that fails: del_key on an absent path returns normally
\* and a clean manager is dirty after it
C20_AbsentMarksDirty ==
    /\ last.op = "del_key" /\ last.err = "none"
    /\ ~HasPath(TreeBefore, last.path)
    /\ ~last.pre.dirty /\ dirty

(***************************************************************************)
(* Claims on reserved names and on the class of a key (checked under Spec).*)
(***************************************************************************)
WriteEntries == {"write", "attr_assign", "setitem"}

\* C21: an assignment of a top-level key whose name is reserved, through
\* write, an attribute or a subscript, fails with ReservedKeyword, and no
\* tree reached from the seeds (which hold no such key) has a reserved
\* name as a top-level key.
C21_ReservedRefused ==
    /\ (last.op \in WriteEntries /\ Len(last.path) = 1
           /\ last.path[1] \in CONF_RESERVED)
          => last.err = "ReservedKeyword"
    /\ DOMAIN data.m \cap CONF_RESERVED = {}

\* C21, the case that fails: a reserved name became a top-level key by a
\* call that returned normally
C21_ReservedKeyStored ==
    /\ last.err = "none"
    /\ DOMAIN last.pre.data.m \cap CONF_RESERVED = {}
    /\ DOMAIN data.m \cap CONF_RESERVED # {}

\* The paths a key of the tree may stand at, and the class of what stands
\* there in a flattened tree
KeyPaths == UNION {[1..n -> Keys] : n \in 1..MaxDepth}
SameClass(before, after, q) ==
    (HasPath(before, q) /\ HasPath(after, q))
        => IsMapping(GetAt(before, q)) = IsMapping(GetAt(after, q))
ClassKept == \A q \in KeyPaths : SameClass(TreeBefore, TreeAfter, q)

\* The calls that may change the class of a key: a write with
\* overwrite_mode, and those that replace the whole tree
ClassChangers == {"set_data", "reload", "clean_del", "init"}

\* C22: a call that is no write with overwrite_mode and does not replace
\* the whole tree leaves every key that is there before and after it with
\* the class (scalar or mapping) it had, or fails with PathConflict.
C22_ClassKept ==
    (last.op \notin ClassChangers /\ ~(last.op = "write" /\ last.ow))
        => (last.err = "PathConflict" \/ ClassKept)

\* C22, the case that fails: an assignment without overwrite_mode returned
\* normally and a key changed its class
C22_ClassChangedByAssignment ==
    /\ last.op \in {"attr_assign", "setitem", "update"}
    /\ last.err = "none"
    /\ ~ClassKept

(***************************************************************************)
(* Claims on the idioms (checked under Spec).                              *)
(***************************************************************************)
\* The paths on which attribute access reaches the tree: cfg._x is an
\* attribute of the manager object itself
InTree(keys) == ~(Len(keys) = 1 /\ StartsWithUnderscore(keys[1]))

\* What each read idiom returns for the path of the last call
ByRead == Plain(read(St, last.path, None).val)
BySubscript == Plain(__getitem__(St, last.path).val)
ByAttr == Plain(attr_read(St, last.path).val)

\* C23: when a value has been stored at a path by write, by a chained
\* attribute assignment or by a subscript assignment, then read, the
\* subscript read and the chained attribute read all return that value.
C23_OneTree ==
    (last.op \in WriteEntries /\ last.err = "none" /\ InTree(last.path))
        => /\ ByRead = Plain(last.val)
           /\ __getitem__(St, last.path).err = "none" /\ BySubscript = Plain(last.val)
           /\ attr_read(St, last.path).err = "none" /\ ByAttr = Plain(last.val)

\* C23, the case that fails: a value stored through one idiom that another
\* idiom does not return
C23_IdiomsDisagree ==
    /\ last.op \in WriteEntries /\ last.err = "none" /\ InTree(last.path)
    /\ ~IsNone(last.val)
    /\ BySubscript = Plain(last.val)
    /\ ByAttr # Plain(last.val)

\* C23 on paths made of ordinary keys and for values other than None: this
\* holds
C23_PlainKeysAgree ==
    (last.op \in WriteEntries /\ last.err = "none" /\ ~IsNone(last.val)
        /\ \A i \in 1..Len(last.path) : last.path[i] \in PlainKeys)
        => /\ ByRead = Plain(last.val)
           /\ __getitem__(St, last.path).err = "none" /\ BySubscript = Plain(last.val)
           /\ attr_read(St, last.path).err = "none" /\ ByAttr = Plain(last.val)

(***************************************************************************)
(* Claims on the read idioms (checked under SpecRead).                     *)
(***************************************************************************)
ReadIdioms == {"read", "getitem", "contains"}

\* C24: read, the call style, the subscript read and the in test create
\* nothing: whether the path is there or not, the flattened tree, the dirty
\* flag and the file are as before; and read returns the default it was
\* given when the path is absent or runs through a scalar.
C24_ReadsChangeNothing ==
    /\ last.op \in ReadIdioms
          => /\ TreeAfter = TreeBefore
             /\ dirty = last.pre.dirty
             /\ file = last.pre.file /\ nwrites = last.pre.nwrites
    /\ (last.op = "read" /\ ~HasPath(TreeBefore, last.path))
          => run.ret = last.val

\* C24: read on an absent path below an existing mapping gave the default,
\* on a manager whose tree holds dicts that no access has wrapped yet
C24_AbsentGivesDefault ==
    /\ last.op = "read" /\ last.val = Str1 /\ run.ret = Str1
    /\ Len(last.path) = 2
    /\ HasPath(TreeBefore, Prefix(last.path, 1))
    /\ ~HasPath(TreeBefore, last.path)
    /\ data = last.pre.data

(***************************************************************************)
(* Claims on to_dict (checked under SpecSnapshot).                         *)
(***************************************************************************)
\* C25: an assignment into the mapping to_dict() returned, at any depth,
\* changes nothing a later read or to_dict() gives: the flattened tree is
\* as before.
C25_SnapshotDetached ==
    last.op = "assign_in_result" => TreeAfter = TreeBefore

\* C25 where every mapping on the way is a ConfigNode: this holds
C25_DetachedBelowNodes ==
    (last.op = "assign_in_result" /\ ~SharedAt(last.pre.data, Front(last.path)))
        => TreeAfter = TreeBefore

\* C25, the case that fails: the assignment went into a dict of the tree,
\* which has changed while the manager is clean
C25_TreeChangedThroughResult ==
    /\ last.op = "assign_in_result"
    /\ TreeAfter # TreeBefore
    /\ ~dirty

(***************************************************************************)
(* Claims on clean_del (checked under SpecClean).                          *)
(***************************************************************************)
\* C26: when clean_del() has returned (and before the next call) the tree is empty and neither the
\* file nor the lock file exists, whether a file stood at the target
\* before the call or not.
C26_CleanDelEmpties ==
    (last.op = "clean_del" /\ run.pc = "idle")
        => (data.m = EmptyMap /\ file.kind = "none" /\ ~run.lock)

\* C26 when a file stood at the target before the call: this holds
C26_CleanDelOverFile ==
    (last.op = "clean_del" /\ run.pc = "idle" /\ last.pre.file.kind # "none")
        => (data.m = EmptyMap /\ file.kind = "none" /\ ~run.lock)

\* C26, the case that fails: no file stood at the target and the tree is
\* what it was
C26_TreeKeptWithoutFile ==
    /\ last.op = "clean_del" /\ run.pc = "idle"
    /\ last.pre.file.kind = "none"
    /\ data.m # EmptyMap

(***************************************************************************)
(* Claims on to_file (checked under SpecExport).                           *)
(***************************************************************************)
\* C27: to_file writes the current snapshot to the path given and leaves
\* the primary target as it was: its file, the dirty flag, the pending
\* timer, and its lock file, which is there after the call exactly if it
\* was there before, with process_safe on or off.
C27_ExportLeavesPrimary ==
    last.op = "to_file"
        => /\ run.out.doc = Exported(last.pre, run.out.fmt).doc
           /\ file = last.pre.file /\ nwrites = last.pre.nwrites
           /\ dirty = last.pre.dirty
           /\ save_timer = last.pre.timer
           /\ run.lock = run.was

\* C27 with process_safe off: this holds
C27_ExportWithoutLock ==
    (last.op = "to_file" /\ ~run.safe)
        => /\ run.out.doc = Exported(last.pre, run.out.fmt).doc
           /\ file = last.pre.file /\ nwrites = last.pre.nwrites
           /\ dirty = last.pre.dirty
           /\ save_timer = last.pre.timer
           /\ run.lock = run.was

\* C27, the case that fails: the lock file of the primary target was
\* there before to_file and is gone after it
C27_LockRemovedByExport ==
    /\ last.op = "to_file"
    /\ run.safe /\ run.was /\ ~run.lock

(***************************************************************************)
(* Claims on a flush that fails (checked under SpecFlush).                 *)
(***************************************************************************)
\* C28: the timer's flush never ends with an exception; when the save
\* inside it failed, the manager is dirty and the tree and the file are as
\* before; and an explicit save() on a dirty manager, made when the file
\* passes the check and writes succeed, leaves the manager clean with the
\* current tree in the file.
C28_FlushFailureKept ==
    /\ last.op = "timer" => last.err = "none"
    /\ (last.op = "timer" /\ FailsUnder(last.pre, run.under))
          => (dirty /\ data = last.pre.data /\ file = last.pre.file)
    /\ (last.op = "save" /\ last.pre.dirty /\ ~FailsUnder(last.pre, run.under))
          => (last.err = "none" /\ ~dirty /\ file = FileBytes(St))

\* C28: a flush has failed, and the explicit save() made after the cause
\* went away has written the tree
C28_RetriedAfterFailure ==
    /\ last.op = "save" /\ last.pre.dirty
    /\ run.retried /\ ~run.under
    /\ nwrites = last.pre.nwrites + 1
    /\ file = FileBytes(St) /\ ~dirty
    /\ nops = MaxOps
    /\ now >= Window

(***************************************************************************)
(* Claims on the context manager (checked under SpecWith).                 *)
(***************************************************************************)
\* C29: when the with block has been left, the file holds the tree as the
\* block left it, with auto_save on or off.
C29_ExitSaves ==
    last.op = "exit" => (file = FileBytes(St) /\ ~dirty)

\* C29 for an exit that finds the manager dirty: this holds
C29_ExitSavesDirty ==
    (last.op = "exit" /\ last.pre.dirty) => (file = FileBytes(St) /\ ~dirty)

\* C29, the case that fails: the block emptied the root with pop or clear,
\* the exit wrote nothing and the file still holds the keys removed
C29_RemovedKeysOnDisk ==
    /\ last.op = "exit"
    /\ ~auto_save
    /\ ~last.pre.dirty
    /\ nwrites = last.pre.nwrites
    /\ Plain(Expand(data)) = Dict(EmptyMap)
    /\ _load(file, pwd, way).err = "none"
    /\ Plain(_load(file, pwd, way).data) # Dict(EmptyMap)

(***************************************************************************)
(* Claims on watching (checked under SpecWatch).                           *)
(***************************************************************************)
OnDisk == Plain(_load(file, pwd, way).data)
Handled == run.observer /\ run.queue = <<>> /\ run.pc = "idle"

\* C30: while an observer runs, once it has handled the events of the
\* modifications made since enable_watch the tree equals the content of
\* the file; and after disable_watch has returned the tree stays as it
\* was, whatever is done to the file.
C30_WatchReloads ==
    /\ (Handled /\ ~run.unwatched) => Plain(Expand(data)) = OnDisk
    /\ (run.returned /\ ~run.observer) => data = run.kept

\* C30 when the handler has ignored no event and disable_watch did not
\* return while the handler was inside reload(): this holds
C30_MatchedEventsReload ==
    /\ (Handled /\ ~run.unwatched /\ ~run.dropped)
          => Plain(Expand(data)) = OnDisk
    /\ (run.returned /\ ~run.observer /\ ~run.late) => data = run.kept

\* C30, the case that fails: a temporary file was renamed onto the target
\* while the observer ran, the handler has seen the event and the tree
\* still holds the old content
C30_ReplaceUnnoticed ==
    /\ Handled /\ ~run.unwatched /\ run.dropped
    /\ last.op = "edit"
    /\ Plain(Expand(data)) # OnDisk

(***************************************************************************)
(* Claims on a mutation racing with save() (checked under SpecRace).       *)
(***************************************************************************)
BothFinished == run.m = "idle" /\ run.s = "idle"

\* C31: when the mutating call and save() have both finished, a manager
\* that is clean has the flattened tree in its file.
C31_CleanMeansSaved ==
    (BothFinished /\ ~dirty) => file = FileBytes(St)

\* C31 for calls that did not run at the same time: this holds
C31_CleanMeansSavedInTurn ==
    (BothFinished /\ ~dirty /\ ~run.overlap) => file = FileBytes(St)

\* C31, the case that fails: save() wrote the tree and cleared the flag
\* around the change made by the other thread
C31_ChangeLeftUnsaved ==
    /\ BothFinished /\ run.overlap
    /\ ~dirty
    /\ file # FileBytes(St)
    /\ last.op = "save"

(***************************************************************************)
(* Claims on the debounce timers (checked under SpecTimers).               *)
(***************************************************************************)
\* No call is running, no timer is armed and no flush is on its way:
\* nothing will happen unless the application calls the manager again
Quiet ==
    /\ run.m = "idle"
    /\ \A i \in Threads : run.pc[i] \in {"none", "cancelled", "done"}

\* C32: with auto_save and a debounce window, once the mutations have
\* stopped and every timer has fired and flushed, the manager is clean and
\* the file holds the flattened tree, for every mutating call and every
\* interleaving with a timer that is firing.
C32_QuietMeansSaved ==
    Quiet => (~dirty /\ file = FileBytes(St))

\* C32 for calls other than clean_del that did not run while a flush was
\* running: this holds
C32_QuietMeansSavedInTurn ==
    (Quiet /\ ~run.overlap /\ ~run.cleaned) => (~dirty /\ file = FileBytes(St))

\* C32, the case that fails: a mutation during a flush, and afterwards no
\* timer is left while the tree is not in the file
C32_ChangeNeverFlushed ==
    /\ Quiet /\ run.overlap /\ ~run.cleaned
    /\ ~dirty
    /\ file # FileBytes(St)

(***************************************************************************)
(* Claims on a manager built over an existing file (checked under          *)
(* SpecOver).                                                              *)
(***************************************************************************)
\* C33: until the first mutating call, a manager built with replace=False
\* over an existing file, with or without initial data, is clean and has
\* written nothing, whether it was saved, left or flushed at exit.
C33_LoadedIsClean ==
    nops = 0 => (~dirty /\ nwrites = 0)

\* C33 for a manager that was handed initial data: this holds
C33_LoadedWithDataIsClean ==
    (nops = 0 /\ run.given) => (~dirty /\ nwrites = 0)

\* C33, the case that fails: no data was given, another program rewrote
\* the file, and a save of the manager, which was never mutated, replaced
\* what the other program had written
C33_OthersOverwritten ==
    /\ nops = 0 /\ ~run.given
    /\ last.op \in {"save", "exit", "atexit"}
    /\ last.pre.file \in ForeignFiles
    /\ nwrites = 1
    /\ file # last.pre.file
    /\ file = FileBytes(St)

(***************************************************************************)
(* Claims on a write that fails (checked under Spec).                      *)
(***************************************************************************)
WriteRefused ==
    last.op = "write" /\ last.err \in {"PathConflict", "ReservedKeyword"}

\* Before the call every key on the way to the last one held a mapping
WayWasThere ==
    /\ HasPath(last.pre.data, Front(last.path))
    /\ IsMapping(GetAt(last.pre.data, Front(last.path)))

\* C34: a write that fails with PathConflict or ReservedKeyword leaves the
\* flattened tree, the dirty flag and the file as they were before the call.
C34_FailedWriteNoEffect ==
    WriteRefused => /\ Plain(Expand(data)) = Plain(Expand(last.pre.data))
                    /\ dirty = last.pre.dirty
                    /\ file = last.pre.file

\* C34 for the tree and the file when every mapping on the way to the last
\* key was there before the call: this holds
C34_FailedWriteKeepsTree ==
    (WriteRefused /\ WayWasThere)
        => /\ Plain(Expand(data)) = Plain(Expand(last.pre.data))
           /\ file = last.pre.file

\* C34, the case that fails: the write made the mappings on its way, which
\* were saved, and then refused the last key
C34_MappingsLeftBehind ==
    /\ WriteRefused
    /\ ~WayWasThere
    /\ HasPath(data, Front(last.path))
    /\ Plain(Expand(data)) # Plain(Expand(last.pre.data))
    /\ file # last.pre.file

(***************************************************************************)
(* Claims on update over nested mappings (checked under SpecMerge).        *)
(***************************************************************************)
\* Tree and partial both hold a mapping at the top-level key k
BothMappings(k) ==
    /\ k \in DOMAIN last.val.m /\ IsMapping(last.val.m[k])
    /\ k \in DOMAIN last.pre.data.m /\ IsMapping(last.pre.data.m[k])

\* The keys of the mapping at k that the partial does not mention are in
\* the tree with the values they had
Kept(k) ==
    \A j \in (DOMAIN last.pre.data.m[k].m) \ (DOMAIN last.val.m[k].m) :
        /\ k \in DOMAIN data.m /\ IsMapping(data.m[k])
        /\ j \in DOMAIN data.m[k].m
        /\ Plain(data.m[k].m[j]) = Plain(last.pre.data.m[k].m[j])

\* C35: after update(partial), where tree and partial both held a mapping
\* at a key, the keys of the existing mapping that partial does not mention
\* have kept their values, however the existing mapping came to be.
C35_MergeKeepsSiblings ==
    (last.op = "update" /\ last.err = "none")
        => \A k \in DOMAIN last.val.m : BothMappings(k) => Kept(k)

\* C35 for a mapping that is a dict, as seeded or loaded: this holds
C35_MergeKeepsSiblingsOfDicts ==
    (last.op = "update" /\ last.err = "none")
        => \A k \in DOMAIN last.val.m :
              (BothMappings(k) /\ IsDict(last.pre.data.m[k])) => Kept(k)

\* C35, the case that fails: the mapping had become a ConfigNode, and the
\* update replaced it by the partial's mapping
C35_NodeReplaced ==
    /\ last.op = "update" /\ last.err = "none"
    /\ BothMappings("a") /\ ~IsDict(last.pre.data.m["a"])
    /\ ~Kept("a")
    /\ Plain(data.m["a"]) = Plain(last.val.m["a"])

Armed == {i \in Threads \ {0} : run.pc[i] = "armed"}

\* C36: at most one timer is armed, and self._save_timer refers to the
\* timer that is armed, so that the next mutation or save() cancels it; a
\* callback that finishes leaves the handle of a newer timer alone.
C36_ArmedTimerHeld ==
    /\ Cardinality(Armed) <= 1
    /\ \A i \in Armed : run.handle = i

\* C36 when no mutating call ran while a flush was running: this holds
C36_ArmedTimerHeldInTurn ==
    ~run.overlap => /\ Cardinality(Armed) <= 1
                    /\ \A i \in Armed : run.handle = i

\* C36, the case that fails: the callback of an older timer has returned
\* and cleared the handle while a newer timer is armed
C36_HandleOfNewerCleared ==
    /\ last.op = "timer"
    /\ run.handle = 0
    /\ \E i \in Armed : \E j \in 1 .. (i - 1) : run.pc[j] = "done"
    /\ last.pre.timer.alive

\* C37: when a timer's flush and a save() by the application run at the
\* same time for one pending change, and no mutating call runs meanwhile,
\* at most one of them writes the tree, and once both are over exactly one
\* has written, the manager is clean and the file holds the flattened tree.
C37_OneFlushWrites ==
    ~run.overlap
        => /\ Cardinality(run.by) <= 1
           /\ (Quiet /\ ~run.cleaned /\ run.next > 1)
                 => /\ Cardinality(run.by) = 1
                    /\ ~dirty
                    /\ file = FileBytes(St)

\* C37: the timer fired while save() was running or the other way round,
\* both have returned, and one of the two has written
C37_FlushedTogether ==
    /\ Quiet /\ run.both /\ ~run.overlap /\ ~run.cleaned
    /\ Cardinality(run.by) = 1
    /\ ~dirty /\ file = FileBytes(St)
    /\ \E i \in Threads \ {0} : run.pc[i] = "done"
    /\ last.op \in {"save", "timer"}

\* C38: with process_safe on, no other process_safe writer changes the
\* target between the check save() makes on the file and its os.replace:
\* the check, the creation of a missing target and the write-and-replace
\* are inside one exclusive lock
C38_NoWriterBetween ==
    run.safe => run.moved = "none"

\* C38, as the code has it: only the steps from the opening of the
\* temporary file to os.replace are inside the exclusive lock, so the other
\* writer gets in before the lock is taken and never after
C38_NoWriterInsideLock ==
    run.safe => run.moved \notin Exclusive

\* C38, the case that fails: after the check passed, the other writer put a
\* file encrypted under another password at the target, and save() went on
\* to replace the file its check would have refused
C38_RefusedFileReplaced ==
    /\ run.safe /\ run.pc = "done"
    /\ run.moved \in {"ensure", "lock"}
    /\ PreCheckFails([St EXCEPT !.file = run.other])
    /\ file = run.snap

\* A caller can take its next step
CanStep(t) ==
    IF run.pc[t] \in {"enter1", "enter2"} THEN CanEnter(run, t)
    ELSE run.pc[t] # "idle"

\* C39: in reload(), save() and to_file() a thread holds the file lock only
\* while it owns self._lock (it enters the file lock after self._lock and
\* leaves it before), and the threads of the process never block each
\* other for good: whenever a call is under way, some caller can step or
\* another process holds the file lock and will give it back.
C39_FileLockInsideLock ==
    /\ \A t \in Callers : run.flock[t] # "none" => run.rlock = t
    /\ (\E t \in Callers : run.pc[t] # "idle")
          => (run.ext \/ \E t \in Callers : CanStep(t))

\* C39: a thread is inside to_file() with both locks while the other has
\* called save() on a dirty manager and waits for self._lock
C39_WaitsForLock ==
    /\ run.safe
    /\ run.op[1] = "to_file" /\ run.pc[1] = "body"
    /\ run.rlock = 1 /\ run.flock[1] = "ex"
    /\ run.op[2] = "save" /\ run.pc[2] = "enter1" /\ dirty
    /\ ~CanStep(2)

\* clean_del() has just removed the file: no call has run since
JustRemoved ==
    /\ last.op = "clean_del"
    /\ last.pre.file.kind # "none"
    /\ file.kind = "none"

\* The next step is a flush nobody asked for: the timer's or the one at exit
Flushes == last'.op \in {"timer", "atexit"} /\ last' # last

\* C40: after clean_del() has removed the file, neither the timer that was
\* pending nor the flush at exit creates the file again.
C40_FileStaysGone ==
    [][(JustRemoved /\ Flushes) => file'.kind = "none"]_vars

\* C40, as the code has it: clean_del() leaves the flag set and the timer
\* armed, so the flush that follows writes the emptied tree to the path
C40_FlushWritesEmptyTree ==
    [][(JustRemoved /\ Flushes)
          => /\ file'.kind # "none"
             /\ file' = FileBytes(St)
             /\ nwrites' = nwrites + 1
             /\ ~dirty']_vars

\* C40, the case that fails: the timer armed by a write before clean_del()
\* has fired after it and put a file at the path again
C40_TimerWroteAgain ==
    /\ last.op = "timer"
    /\ last.pre.file.kind = "none"
    /\ last.pre.data = ConfigNode(Dict(EmptyMap))
    /\ last.pre.timer.alive
    /\ file.kind # "none"
    /\ nwrites = last.pre.nwrites + 1

====
